---- MODULE Spec2Model ----
(***************************************************************************)
(* A model of the read-me-book text pipeline: PDFProcessor (pdf_processor)  *)
(* driving AITextAnalyzer (ai_text_analyzer).  Strings are sequences of    *)
(* one-character strings, so that strip, split, join and the regular       *)
(* expressions of the analyzer are computed character by character.        *)
(***************************************************************************)
EXTENDS Naturals, Integers, Sequences, FiniteSets, TLC

(***************************************************************************)
(* Character classes of Python's re module and of str.strip / str.split.   *)
(***************************************************************************)
Whitespace == {" ", "\t", "\n", "\r", "\f"}

Digit == {"0", "1", "2", "3", "4", "5", "6", "7", "8", "9"}

Upper == {"A", "B", "C", "D", "E", "F", "G", "H", "I", "J", "K", "L", "M",
          "N", "O", "P", "Q", "R", "S", "T", "U", "V", "W", "X", "Y", "Z"}

RomanLetter == {"I", "V", "X", "L", "C", "D", "M"}

\* Letters outside ASCII that the patterns name, each one character.
iAcute == "i-acute"

IAcute == "I-ACUTE"

cCedilla == "c-cedilla"

CCedilla == "C-CEDILLA"

aTilde == "a-tilde"

aAcute == "a-acute"

AAcute == "A-ACUTE"

ATilde == "A-TILDE"

CopyrightSign == "(c)"

(***************************************************************************)
(* String primitives.                                                      *)
(***************************************************************************)
\* s[from:] of Python, from 0-based; the empty string past the end.
Drop(s, from) == IF from >= Len(s) THEN << >> ELSE SubSeq(s, from + 1, Len(s))

\* s.startswith(w)
StartsWith(s, w) == Len(w) <= Len(s) /\ SubSeq(s, 1, Len(w)) = w

\* The 1-based index of the first character at or after i that is not in
\* class; Len(s) + 1 when the run reaches the end.
RECURSIVE SkipClass(_, _, _)
SkipClass(s, i, class) ==
    IF i > Len(s) \/ s[i] \notin class THEN i ELSE SkipClass(s, i + 1, class)

\* The 1-based index of the last character at or before i that is not in
\* class; 0 when the run reaches the start.
RECURSIVE SkipClassBack(_, _, _)
SkipClassBack(s, i, class) ==
    IF i < 1 \/ s[i] \notin class THEN i ELSE SkipClassBack(s, i - 1, class)

\* The 1-based index of the first occurrence of c at or after i; Len(s) + 1
\* when there is none.
RECURSIVE IndexOf(_, _, _)
IndexOf(s, i, c) ==
    IF i > Len(s) \/ s[i] = c THEN i ELSE IndexOf(s, i + 1, c)

\* Only blanks removed from the ends, as by strip(' ').
StripBlanks(s) ==
    LET a == SkipClass(s, 1, {" "})
        b == SkipClassBack(s, Len(s), {" "})
    IN  IF a > b THEN << >> ELSE SubSeq(s, a, b)

\* str.strip(): leading and trailing whitespace removed.
Strip(s) ==
    LET a == SkipClass(s, 1, Whitespace)
        b == SkipClassBack(s, Len(s), Whitespace)
    IN  IF a > b THEN << >> ELSE SubSeq(s, a, b)

\* str.split(sep) for a one-character separator: one piece more than there
\* are separators, so the empty string splits into one empty piece.
RECURSIVE SplitOn(_, _)
SplitOn(s, sep) ==
    LET j == IndexOf(s, 1, sep)
    IN  IF j > Len(s) THEN << s >>
        ELSE << SubSeq(s, 1, j - 1) >> \o SplitOn(Drop(s, j), sep)

\* sep.join(parts)
RECURSIVE Join(_, _)
Join(parts, sep) ==
    IF parts = << >> THEN << >>
    ELSE IF Len(parts) = 1 THEN parts[1]
    ELSE parts[1] \o sep \o Join(Tail(parts), sep)

\* len(s.split(' ')): one more than the number of blanks.
WordCountBySeparators(s) ==
    Cardinality({i \in 1..Len(s) : s[i] = " "}) + 1

\* len(s.split()): the number of maximal runs of non-whitespace characters.
WordCount(s) ==
    Cardinality({i \in 1..Len(s) :
                    /\ s[i] \notin Whitespace
                    /\ (i = 1 \/ s[i - 1] \in Whitespace)})

\* int(digits) for a run of decimal digits.
DigitValue(c) ==
    CASE c = "0" -> 0 [] c = "1" -> 1 [] c = "2" -> 2 [] c = "3" -> 3
      [] c = "4" -> 4 [] c = "5" -> 5 [] c = "6" -> 6 [] c = "7" -> 7
      [] c = "8" -> 8 [] c = "9" -> 9

RECURSIVE ParseInt(_)
ParseInt(ds) ==
    IF ds = << >> THEN 0
    ELSE 10 * ParseInt(SubSeq(ds, 1, Len(ds) - 1)) + DigitValue(ds[Len(ds)])

(***************************************************************************)
(* The regular expressions of AITextAnalyzer.__init__, each as the         *)
(* predicate "re.match(pattern, line) succeeds".  re.match anchors at the  *)
(* start of the line; $ is the end of the line (a stripped line has no     *)
(* trailing newline).                                                      *)
(***************************************************************************)
\* ^(w1|w2|...)\s+(numeral classes): one of the words, at least one
\* whitespace character, then a character of numClass.  The whitespace run
\* is followed by a non-whitespace class, so the greedy run decides.
KeywordThenNumber(line, words, numClass) ==
    \E w \in words :
        /\ StartsWith(line, w)
        /\ LET j == SkipClass(line, Len(w) + 1, Whitespace)
           IN  j > Len(w) + 1 /\ j <= Len(line) /\ line[j] \in numClass

ChapterWords ==
    { <<"C", "h", "a", "p", "t", "e", "r">>,
      <<"C", "H", "A", "P", "T", "E", "R">>,
      <<"C", "a", "p", iAcute, "t", "u", "l", "o">>,
      <<"C", "A", "P", IAcute, "T", "U", "L", "O">> }

PartWords ==
    { <<"P", "a", "r", "t">>, <<"P", "A", "R", "T">>,
      <<"P", "a", "r", "t", "e">>, <<"P", "A", "R", "T", "E">> }

SectionWords ==
    { <<"S", "e", "c", "t", "i", "o", "n">>,
      <<"S", "E", "C", "T", "I", "O", "N">>,
      <<"S", "e", cCedilla, aTilde, "o">>,
      <<"S", "E", CCedilla, ATilde, "O">> }

\* ^(Chapter|CHAPTER|Capitulo|CAPITULO)\s+(\d+|[IVXLCDM]+)
ChapterKeywordPattern(line) ==
    KeywordThenNumber(line, ChapterWords, Digit \cup RomanLetter)

\* ^(\d+)\.\s+[A-Z]
NumberedHeadingPattern(line) ==
    LET d == SkipClass(line, 1, Digit)
        w == SkipClass(line, d + 1, Whitespace)
    IN  /\ d > 1
        /\ d <= Len(line) /\ line[d] = "."
        /\ w > d + 1
        /\ w <= Len(line) /\ line[w] \in Upper

\* The number of repetitions the all-capitals pattern asks for after the
\* first capital.
AllCapsMinRest == 10

\* ^[A-Z][A-Z\s]{10,}$
AllCapsPattern(line) ==
    /\ Len(line) >= 1 + AllCapsMinRest
    /\ line[1] \in Upper
    /\ \A i \in 2..Len(line) : line[i] \in Upper \cup Whitespace

\* ^(Part|PART|Parte|PARTE)\s+(\d+|[IVXLCDM]+)
PartKeywordPattern(line) ==
    KeywordThenNumber(line, PartWords, Digit \cup RomanLetter)

\* ^(Section|SECTION|Secao|SECAO)\s+(\d+)
SectionKeywordPattern(line) ==
    KeywordThenNumber(line, SectionWords, Digit)

\* self.chapter_patterns, in the order of the list.
chapter_patterns(line) ==
    << ChapterKeywordPattern(line), NumberedHeadingPattern(line),
       AllCapsPattern(line), PartKeywordPattern(line),
       SectionKeywordPattern(line) >>

\* ^\d+\s*$
BareNumberPattern(line) ==
    LET d == SkipClass(line, 1, Digit)
    IN  d > 1 /\ SkipClass(line, d, Whitespace) > Len(line)

\* ^[A-Z\s]+$
CapsOrSpacePattern(line) ==
    Len(line) >= 1 /\ \A i \in 1..Len(line) : line[i] \in Upper \cup Whitespace

\* ^\s*\d+\s*\|\s*
PipeMarkerPattern(line) ==
    LET a == SkipClass(line, 1, Whitespace)
        d == SkipClass(line, a, Digit)
        b == SkipClass(line, d, Whitespace)
    IN  d > a /\ b <= Len(line) /\ line[b] = "|"

\* self.header_patterns
header_patterns(line) ==
    << BareNumberPattern(line), CapsOrSpacePattern(line),
       PipeMarkerPattern(line) >>

\* ^Copyright
CopyrightWordPattern(line) ==
    StartsWith(line, <<"C", "o", "p", "y", "r", "i", "g", "h", "t">>)

\* ^(c)   (the copyright sign)
CopyrightSignPattern(line) == StartsWith(line, << CopyrightSign >>)

\* ^\s*\d+\s*$
PaddedNumberPattern(line) ==
    LET a == SkipClass(line, 1, Whitespace)
        d == SkipClass(line, a, Digit)
    IN  d > a /\ SkipClass(line, d, Whitespace) > Len(line)

\* self.footer_patterns
footer_patterns(line) ==
    << BareNumberPattern(line), CopyrightWordPattern(line),
       CopyrightSignPattern(line), PaddedNumberPattern(line) >>

\* The pattern without the whitespace after the digits.
FootnotePatternDigitsOnly(line) ==
    LET a == SkipClass(line, 1, Whitespace)
    IN  SkipClass(line, a, Digit) > a

\* ^\s*\d+\s+
FootnotePattern(line) ==
    LET a == SkipClass(line, 1, Whitespace)
        d == SkipClass(line, a, Digit)
    IN  d > a /\ d <= Len(line) /\ line[d] \in Whitespace

\* ^\[\d+\]
ReferencePattern(line) ==
    LET d == SkipClass(line, 2, Digit)
    IN  /\ Len(line) >= 1 /\ line[1] = "["
        /\ d > 2 /\ d <= Len(line) /\ line[d] = "]"

\* "for pattern in patterns: if re.match(pattern, line)": some pattern matches.
AnyMatch(results) == \E k \in 1..Len(results) : results[k]

\* The windows and length limits of classify_line_type.
HeaderWindow == 3

FooterWindow == 3

HeaderFooterMaxLen == 50

FootnoteMaxLen == 150

\* The classifier without the test for a blank line: a blank line matches no
\* pattern and falls through to content.
classify_line_type_blank_unchecked(rawLine, position, total_lines) ==
    LET line == Strip(rawLine)
    IN  IF AnyMatch(chapter_patterns(line)) THEN "chapter"
        ELSE IF /\ position < HeaderWindow /\ Len(line) < HeaderFooterMaxLen
                /\ AnyMatch(header_patterns(line)) THEN "header"
        ELSE IF /\ position >= total_lines - FooterWindow
                /\ Len(line) < HeaderFooterMaxLen
                /\ AnyMatch(footer_patterns(line)) THEN "footer"
        ELSE IF FootnotePattern(line) /\ Len(line) < FootnoteMaxLen
             THEN "footnote"
        ELSE IF ReferencePattern(line) THEN "reference"
        ELSE "content"

\* The classifier with the footer test made before the header test.
classify_line_type_footer_first(rawLine, position, total_lines) ==
    LET line == Strip(rawLine)
    IN  IF line = << >> THEN "empty"
        ELSE IF AnyMatch(chapter_patterns(line)) THEN "chapter"
        ELSE IF /\ position >= total_lines - FooterWindow
                /\ Len(line) < HeaderFooterMaxLen
                /\ AnyMatch(footer_patterns(line)) THEN "footer"
        ELSE IF /\ position < HeaderWindow /\ Len(line) < HeaderFooterMaxLen
                /\ AnyMatch(header_patterns(line)) THEN "header"
        ELSE IF FootnotePattern(line) /\ Len(line) < FootnoteMaxLen
             THEN "footnote"
        ELSE IF ReferencePattern(line) THEN "reference"
        ELSE "content"

\* The classifier with the header test made before the chapter test.
classify_line_type_header_first(rawLine, position, total_lines) ==
    LET line == Strip(rawLine)
    IN  IF line = << >> THEN "empty"
        ELSE IF /\ position < HeaderWindow /\ Len(line) < HeaderFooterMaxLen
                /\ AnyMatch(header_patterns(line)) THEN "header"
        ELSE IF AnyMatch(chapter_patterns(line)) THEN "chapter"
        ELSE IF /\ position >= total_lines - FooterWindow
                /\ Len(line) < HeaderFooterMaxLen
                /\ AnyMatch(footer_patterns(line)) THEN "footer"
        ELSE IF FootnotePattern(line) /\ Len(line) < FootnoteMaxLen
             THEN "footnote"
        ELSE IF ReferencePattern(line) THEN "reference"
        ELSE "content"

(***************************************************************************)
(* AITextAnalyzer.classify_line_type                                       *)
(***************************************************************************)
classify_line_type(rawLine, position, total_lines) ==
    LET line == Strip(rawLine)
    IN  IF line = << >> THEN "empty"
        ELSE IF AnyMatch(chapter_patterns(line)) THEN "chapter"
        ELSE IF /\ position < HeaderWindow /\ Len(line) < HeaderFooterMaxLen
                /\ AnyMatch(header_patterns(line)) THEN "header"
        ELSE IF /\ position >= total_lines - FooterWindow
                /\ Len(line) < HeaderFooterMaxLen
                /\ AnyMatch(footer_patterns(line)) THEN "footer"
        ELSE IF FootnotePattern(line) /\ Len(line) < FootnoteMaxLen
             THEN "footnote"
        ELSE IF ReferencePattern(line) THEN "reference"
        ELSE "content"

(***************************************************************************)
(* Optional values: None is the empty sequence, a value v is << v >>.      *)
(***************************************************************************)
None == << >>

Some(v) == << v >>

(***************************************************************************)
(* AITextAnalyzer._roman_to_int                                            *)
(***************************************************************************)
\* roman.get(char, 0)
RomanValue(c) ==
    CASE c = "I" -> 1 [] c = "V" -> 5 [] c = "X" -> 10 [] c = "L" -> 50
      [] c = "C" -> 100 [] c = "D" -> 500 [] c = "M" -> 1000 [] OTHER -> 0

\* The comparison with equal values subtracted too.
RomanSubtractsOnEqual(value, prev_value) == value <= prev_value

\* The loop with every value added, none subtracted.
RomanNeverSubtracts(value, prev_value) == FALSE

\* One pass of "for char in reversed(s)": whether this value is subtracted.
RomanSubtracts(value, prev_value) == value < prev_value

\* The loop over reversed(s), at 1-based index i, with the loop's variables.
RECURSIVE RomanLoop(_, _, _, _)
RomanLoop(s, i, result, prev_value) ==
    IF i < 1 THEN result
    ELSE LET value == RomanValue(s[i])
         IN  RomanLoop(s, i - 1,
                       IF RomanSubtracts(value, prev_value)
                       THEN result - value ELSE result + value,
                       value)

_roman_to_int(s) == RomanLoop(s, Len(s), 0, 0)

(***************************************************************************)
(* AITextAnalyzer._extract_chapter_info                                    *)
(***************************************************************************)
\* re.search(r'[class]+', s).group(): the leftmost maximal run of characters
\* of the class, None when the line has none.
FirstRun(s, class) ==
    LET a == SkipClass(s, 1, {s[k] : k \in 1..Len(s)} \ class)
    IN  IF a > Len(s) THEN None
        ELSE Some(SubSeq(s, a, SkipClass(s, a, class) - 1))

UpperLetters ==
    <<"A", "B", "C", "D", "E", "F", "G", "H", "I", "J", "K", "L", "M",
      "N", "O", "P", "Q", "R", "S", "T", "U", "V", "W", "X", "Y", "Z",
      IAcute, CCedilla, ATilde, AAcute>>

LowerLetters ==
    <<"a", "b", "c", "d", "e", "f", "g", "h", "i", "j", "k", "l", "m",
      "n", "o", "p", "q", "r", "s", "t", "u", "v", "w", "x", "y", "z",
      iAcute, cCedilla, aTilde, aAcute>>

\* str.lower()
Lower(s) ==
    [k \in 1..Len(s) |->
        IF \E u \in 1..Len(UpperLetters) : UpperLetters[u] = s[k]
        THEN LowerLetters[CHOOSE u \in 1..Len(UpperLetters) :
                              UpperLetters[u] = s[k]]
        ELSE s[k]]

\* w in s
Contains(s, w) ==
    \E a \in 1..(Len(s) - Len(w) + 1) : SubSeq(s, a, a + Len(w) - 1) = w

\* The number of the heading: the Arabic match wins over the Roman match.
ChapterNumber(chapter_line) ==
    LET roman_match == FirstRun(chapter_line, RomanLetter)
        arabic_match == FirstRun(chapter_line, Digit)
    IN  IF arabic_match # None THEN Some(ParseInt(arabic_match[1]))
        ELSE IF roman_match # None THEN Some(_roman_to_int(roman_match[1]))
        ELSE None

ChapterType(chapter_line) ==
    LET low == Lower(chapter_line)
    IN  IF Contains(low, <<"p", "a", "r", "t">>)
           \/ Contains(low, <<"p", "a", "r", "t", "e">>) THEN "part"
        ELSE IF Contains(low, <<"s", "e", "c", "t", "i", "o", "n">>)
                \/ Contains(low, <<"s", "e", cCedilla, aTilde, "o">>)
             THEN "section"
        ELSE "chapter"

_extract_chapter_info(chapter_line) ==
    [number |-> ChapterNumber(chapter_line), type |-> ChapterType(chapter_line)]

(***************************************************************************)
(* AITextAnalyzer.detect_chapters_advanced                                 *)
(***************************************************************************)
\* The confidence of every marker, in tenths (0.9).
ConfidenceTenths == 9

\* page_data['text'].split('\n')
PageLines(page_data) == SplitOn(page_data.text, "\n")

\* The marker with the 1-based position of the line.
ChapterMarkerOneBased(line, page_num, i) ==
    LET chapter_info == _extract_chapter_info(line)
    IN  [title |-> Strip(line),
         chapter_number |-> chapter_info.number,
         type |-> chapter_info.type,
         page |-> page_num,
         line_position |-> i + 1,
         confidence |-> ConfidenceTenths]

\* The dictionary appended for line i (0-based) of the page numbered page_num.
ChapterMarker(line, page_num, i) ==
    LET chapter_info == _extract_chapter_info(line)
    IN  [title |-> Strip(line),
         chapter_number |-> chapter_info.number,
         type |-> chapter_info.type,
         page |-> page_num,
         line_position |-> i,
         confidence |-> ConfidenceTenths]

\* The marker put in front of the list.
PrependMarker(chapters, marker) == << marker >> \o chapters

\* chapters.append(marker)
AppendMarker(chapters, marker) == Append(chapters, marker)

\* "for i, line in enumerate(lines)" from line i on.
RECURSIVE DetectLineLoop(_, _, _, _)
DetectLineLoop(chapters, lines, i, page_num) ==
    IF i >= Len(lines) THEN chapters
    ELSE LET line == lines[i + 1]
             line_type == classify_line_type(line, i, Len(lines))
         IN  DetectLineLoop(
                 IF line_type = "chapter"
                 THEN AppendMarker(chapters, ChapterMarker(line, page_num, i))
                 ELSE chapters,
                 lines, i + 1, page_num)

\* "for page_data in pages_data" from the k-th page of the list on.
RECURSIVE DetectPageLoop(_, _, _)
DetectPageLoop(chapters, pages_data, k) ==
    IF k > Len(pages_data) THEN chapters
    ELSE DetectPageLoop(
             DetectLineLoop(chapters, PageLines(pages_data[k]), 0,
                            pages_data[k].page_number),
             pages_data, k + 1)

detect_chapters_advanced(pages_data) == DetectPageLoop(<< >>, pages_data, 1)

(***************************************************************************)
(* AITextAnalyzer._estimate_duration.  Durations are kept in tenths of a   *)
(* minute: round(word_count / wpm, 1) is a multiple of 0.1.                *)
(***************************************************************************)
slow_wpm == 130

medium_wpm == 150

fast_wpm == 180

\* The significand bits of an IEEE-754 double.
DoubleBits == 53

\* word_count / wpm is the double nearest to the exact quotient.  Binary long
\* division of r / d (r < d), bit by bit: the direction in which the quotient
\* is rounded to DoubleBits significant bits, "above", "below" or "exact".
\* sig is the number of significant bits produced so far, last the last bit.
RECURSIVE DivisionRounding(_, _, _, _)
DivisionRounding(r, d, sig, last) ==
    IF sig = DoubleBits
    THEN IF r = 0 THEN "exact"
         ELSE IF 2 * r > d THEN "above"
         ELSE IF 2 * r < d THEN "below"
         ELSE IF last = 1 THEN "above" ELSE "below"
    ELSE IF r = 0 THEN "exact"
    ELSE LET bit == IF 2 * r >= d THEN 1 ELSE 0
             rest == 2 * r - bit * d
         IN  DivisionRounding(rest, d,
                              IF sig > 0 \/ bit = 1 THEN sig + 1 ELSE 0, bit)

\* The number of bits of a positive integer; 0 for 0.
RECURSIVE BitLength(_)
BitLength(n) == IF n = 0 THEN 0 ELSE 1 + BitLength(n \div 2)

\* The quotient cut off after the first decimal, in tenths.
TruncateTenths(n, d) == (10 * n) \div d

\* The remainder taken in place of the quotient, in tenths.
RemainderTenths(n, d) == 10 * (n % d)

\* round(n / d, 1) in tenths, as Python computes it: the quotient is a double,
\* and round() takes the tenth nearest to that double, half to even when the
\* double is exactly half way.
RoundTenths(n, d) ==
    LET whole == (10 * n) \div d
        twice == (20 * n) \div d
        midway == (20 * n) % d = 0 /\ twice % 2 = 1
        dir == DivisionRounding(n % d, d, BitLength(n \div d), (n \div d) % 2)
    IN  IF ~midway
        THEN IF twice % 2 = 1 THEN whole + 1 ELSE whole
        ELSE IF dir = "above" THEN whole + 1
        ELSE IF dir = "below" THEN whole
        ELSE IF whole % 2 = 1 THEN whole + 1 ELSE whole

_estimate_duration(word_count) ==
    [slow |-> RoundTenths(word_count, slow_wpm),
     medium |-> RoundTenths(word_count, medium_wpm),
     fast |-> RoundTenths(word_count, fast_wpm)]

(***************************************************************************)
(* AITextAnalyzer._estimate_reading_time                                   *)
(***************************************************************************)
\* The words of the lines classified 'content' only.
RECURSIVE TotalWordsOfContent(_)
TotalWordsOfContent(pages_data) ==
    IF pages_data = << >> THEN 0
    ELSE LET lines == PageLines(Head(pages_data))
             kept == [i \in 1..Len(lines) |->
                         IF classify_line_type(lines[i], i - 1, Len(lines))
                                = "content"
                         THEN lines[i] ELSE << >>]
         IN  WordCount(Join(kept, <<" ">>))
             + TotalWordsOfContent(Tail(pages_data))

RECURSIVE TotalWords(_)
TotalWords(pages_data) ==
    IF pages_data = << >> THEN 0
    ELSE WordCount(Head(pages_data).text) + TotalWords(Tail(pages_data))

_estimate_reading_time(pages_data) == _estimate_duration(TotalWords(pages_data))

(***************************************************************************)
(* AITextAnalyzer._extract_chapter_content.  The loop's variables are the  *)
(* record st: content_lines, paragraphs and current_paragraph of the code, *)
(* and two records of what the loop did: visited (the pages that passed    *)
(* the range test, with the index scanning started at) and retained (the   *)
(* page number and 0-based index of every line appended to content_lines). *)
(***************************************************************************)
\* The range test with the end page included.
InPageRangeInclusive(page_num, start_page, end_page) ==
    start_page <= page_num /\ page_num <= end_page

\* start_page <= page_num < end_page
InPageRange(page_num, start_page, end_page) ==
    start_page <= page_num /\ page_num < end_page

\* Scanning from the top of every page, the start page too.
StartIndexFromTop(page_num, start_page, start_line) == 0

\* start_idx = start_line + 1 if page_num == start_page else 0
StartIndex(page_num, start_page, start_line) ==
    IF page_num = start_page THEN start_line + 1 ELSE 0

\* Retaining every line that is not blank.
IsRetainedNonBlank(line_type) == line_type # "empty"

\* if line_type == 'content'
IsRetained(line_type) == line_type = "content"

\* The body with every retained line closed as a paragraph of its own.
ContentStepLinePerParagraph(st, line, i, total_lines, page_num) ==
    LET line_type == classify_line_type(line, i, total_lines)
    IN  IF ~IsRetained(line_type) THEN st
        ELSE [st EXCEPT
                 !.content_lines = Append(@, Strip(line)),
                 !.retained = Append(@, [page |-> page_num, index |-> i]),
                 !.paragraphs = Append(@, Strip(line))]

\* The body of "for i, line in enumerate(lines[start_idx:], start=start_idx)".
ContentStep(st, line, i, total_lines, page_num) ==
    LET line_type == classify_line_type(line, i, total_lines)
    IN  IF ~IsRetained(line_type) THEN st
        ELSE LET kept == [st EXCEPT
                            !.content_lines = Append(@, Strip(line)),
                            !.retained = Append(@, [page |-> page_num,
                                                    index |-> i])]
             IN  IF Strip(line) # << >>
                 THEN [kept EXCEPT
                          !.current_paragraph = Append(@, Strip(line))]
                 ELSE IF st.current_paragraph # << >>
                 THEN [kept EXCEPT
                          !.paragraphs =
                              Append(@, Join(st.current_paragraph, <<" ">>)),
                          !.current_paragraph = << >>]
                 ELSE kept

RECURSIVE ContentLineLoop(_, _, _, _)
ContentLineLoop(st, lines, i, page_num) ==
    IF i >= Len(lines) THEN st
    ELSE ContentLineLoop(ContentStep(st, lines[i + 1], i, Len(lines), page_num),
                         lines, i + 1, page_num)

\* "for page in pages_data" from the k-th page of the list on.
RECURSIVE ContentPageLoop(_, _, _, _, _, _)
ContentPageLoop(st, pages_data, k, start_page, end_page, start_line) ==
    IF k > Len(pages_data) THEN st
    ELSE LET page_num == pages_data[k].page_number
             start_idx == StartIndex(page_num, start_page, start_line)
             seen == [st EXCEPT !.visited =
                         Append(@, [page |-> page_num, start |-> start_idx])]
         IN  ContentPageLoop(
                 IF InPageRange(page_num, start_page, end_page)
                 THEN ContentLineLoop(seen, PageLines(pages_data[k]),
                                      start_idx, page_num)
                 ELSE st,
                 pages_data, k + 1, start_page, end_page, start_line)

\* The loop's variables when the loop over the pages has ended.
ContentScan(pages_data, start_page, end_page, start_line) ==
    ContentPageLoop([content_lines |-> << >>, paragraphs |-> << >>,
                     current_paragraph |-> << >>,
                     visited |-> << >>, retained |-> << >>],
                    pages_data, 1, start_page, end_page, start_line)

_extract_chapter_content(pages_data, start_page, end_page, start_line) ==
    LET st == ContentScan(pages_data, start_page, end_page, start_line)
        paragraphs == IF st.current_paragraph # << >>
                      THEN Append(st.paragraphs,
                                  Join(st.current_paragraph, <<" ">>))
                      ELSE st.paragraphs
        full_text == Join(st.content_lines, <<" ">>)
        word_count == WordCount(full_text)
    IN  [text |-> full_text,
         paragraphs |-> paragraphs,
         word_count |-> word_count,
         estimated_duration |-> _estimate_duration(word_count)]

(***************************************************************************)
(* AITextAnalyzer.organize_text_for_audiobook                              *)
(***************************************************************************)
\* end_page of chapter i (1-based in the list): the page of the next marker,
\* or len(pages_data) + 1 for the last one.
\* Every chapter read to the end of the document.
EndPageOfDocument(pages_data, chapters, i) == Len(pages_data) + 1

EndPage(pages_data, chapters, i) ==
    IF i + 1 <= Len(chapters) THEN chapters[i + 1].page
    ELSE Len(pages_data) + 1

\* The dictionary appended to structured_content['chapters'] for chapter i.
ChapterEntry(pages_data, chapters, i) ==
    LET chapter == chapters[i]
        start_page == chapter.page
        end_page == EndPage(pages_data, chapters, i)
        chapter_content == _extract_chapter_content(
                               pages_data, start_page, end_page,
                               chapter.line_position)
    IN  [number |-> chapter.chapter_number,
         title |-> chapter.title,
         type |-> chapter.type,
         page_range |-> <<start_page, end_page - 1>>,
         content |-> chapter_content.text,
         paragraphs |-> chapter_content.paragraphs,
         word_count |-> chapter_content.word_count,
         estimated_duration |-> chapter_content.estimated_duration]

\* The organizer with one chapter made of the whole document when the chapter
\* list is empty.
organize_whole_document(pages_data, chapters) ==
    LET markers == IF chapters # << >> THEN chapters
                   ELSE << [title |-> <<"F", "u", "l", "l">>,
                            chapter_number |-> None,
                            type |-> "chapter",
                            page |-> 1,
                            line_position |-> -1,
                            confidence |-> ConfidenceTenths] >>
    IN  [metadata |->
            [total_pages |-> Len(pages_data),
             total_chapters |-> Len(markers),
             estimated_reading_time |-> _estimate_reading_time(pages_data)],
         chapters |->
            [i \in 1..Len(markers) |-> ChapterEntry(pages_data, markers, i)]]

organize_text_for_audiobook(pages_data, chapters) ==
    [metadata |->
        [total_pages |-> Len(pages_data),
         total_chapters |-> Len(chapters),
         estimated_reading_time |-> _estimate_reading_time(pages_data)],
     chapters |->
        [i \in 1..Len(chapters) |-> ChapterEntry(pages_data, chapters, i)]]

\* What the content loop of each chapter did during organize: per chapter,
\* the pages visited and the lines retained.
OrganizeScan(pages_data, chapters) ==
    [i \in 1..Len(chapters) |->
        LET st == ContentScan(pages_data, chapters[i].page,
                              EndPage(pages_data, chapters, i),
                              chapters[i].line_position)
        IN  [visited |-> st.visited, retained |-> st.retained]]

(***************************************************************************)
(* AITextAnalyzer.extract_footnotes_and_references                         *)
(***************************************************************************)
\* The number of a line that begins with it, None for a line set in.
_extract_footnote_number_at_margin(rawLine) ==
    LET d == SkipClass(rawLine, 1, Digit)
    IN  IF d > 1 /\ d <= Len(rawLine) /\ rawLine[d] \in Whitespace
        THEN Some(ParseInt(SubSeq(rawLine, 1, d - 1)))
        ELSE None

\* re.match(r'^\s*(\d+)\s+', line): the number, or None without a match.
_extract_footnote_number(rawLine) ==
    LET a == SkipClass(rawLine, 1, Whitespace)
        d == SkipClass(rawLine, a, Digit)
    IN  IF d > a /\ d <= Len(rawLine) /\ rawLine[d] \in Whitespace
        THEN Some(ParseInt(SubSeq(rawLine, a, d - 1)))
        ELSE None

\* The body of "for i, line in enumerate(lines)" of the extraction; found is
\* the pair of lists.
NoteStep(found, rawLine, i, lineCount, page_num) ==
    LET line_type == classify_line_type(rawLine, i, lineCount)
    IN  IF line_type = "footnote"
        THEN [found EXCEPT !.footnotes =
                  Append(@, [page |-> page_num,
                             text |-> Strip(rawLine),
                             number |-> _extract_footnote_number(rawLine)])]
        ELSE IF line_type = "reference"
        THEN [found EXCEPT !.references =
                  Append(@, [page |-> page_num, text |-> Strip(rawLine)])]
        ELSE found

RECURSIVE NoteLineLoop(_, _, _, _)
NoteLineLoop(found, lines, i, page_num) ==
    IF i >= Len(lines) THEN found
    ELSE NoteLineLoop(NoteStep(found, lines[i + 1], i, Len(lines), page_num),
                      lines, i + 1, page_num)

RECURSIVE NotePageLoop(_, _, _)
NotePageLoop(found, pages_data, k) ==
    IF k > Len(pages_data) THEN found
    ELSE NotePageLoop(
             NoteLineLoop(found, PageLines(pages_data[k]), 0,
                          pages_data[k].page_number),
             pages_data, k + 1)

extract_footnotes_and_references(pages_data) ==
    NotePageLoop([footnotes |-> << >>, references |-> << >>], pages_data, 1)

(***************************************************************************)
(* AITextAnalyzer.identify_document_structure                              *)
(***************************************************************************)
\* The number of pages scanned at each end of the document.
StructureWindow == 10

\* The whole of pages_data.
WholeDocument(pages_data) == pages_data

\* pages_data[:10]
FirstPages(pages_data) ==
    SubSeq(pages_data, 1,
           IF Len(pages_data) < StructureWindow THEN Len(pages_data)
           ELSE StructureWindow)

\* pages_data[-10:]
LastPages(pages_data) ==
    SubSeq(pages_data,
           IF Len(pages_data) < StructureWindow THEN 1
           ELSE Len(pages_data) - StructureWindow + 1,
           Len(pages_data))

\* Some page of the list has one of the keywords in page['text'].lower().
HasKeyword(pages_data, keywords) ==
    \E k \in 1..Len(pages_data) :
        \E w \in keywords : Contains(Lower(pages_data[k].text), w)

identify_document_structure(pages_data) ==
    [has_table_of_contents |->
        HasKeyword(FirstPages(pages_data),
                   { <<"t", "a", "b", "l", "e", " ", "o", "f", " ",
                       "c", "o", "n", "t", "e", "n", "t", "s">>,
                     <<iAcute, "n", "d", "i", "c", "e">> }),
     has_introduction |->
        HasKeyword(FirstPages(pages_data),
                   { <<"i", "n", "t", "r", "o", "d", "u", "c", "t", "i", "o",
                       "n">>,
                     <<"i", "n", "t", "r", "o", "d", "u", cCedilla, aTilde,
                       "o">> }),
     has_preface |->
        HasKeyword(FirstPages(pages_data),
                   { <<"p", "r", "e", "f", "a", "c", "e">>,
                     <<"p", "r", "e", "f", aAcute, "c", "i", "o">> }),
     has_epilogue |->
        HasKeyword(LastPages(pages_data),
                   { <<"e", "p", "i", "l", "o", "g", "u", "e">>,
                     <<"e", "p", iAcute, "l", "o", "g", "o">> }),
     has_bibliography |->
        HasKeyword(LastPages(pages_data),
                   { <<"b", "i", "b", "l", "i", "o", "g", "r", "a", "p", "h",
                       "y">>,
                     <<"b", "i", "b", "l", "i", "o", "g", "r", "a", "f", "i",
                       "a">> }),
     has_index |->
        HasKeyword(LastPages(pages_data),
                   { <<"i", "n", "d", "e", "x">> }),
     sections |-> << >>]

(***************************************************************************)
(* The input: a PDF file is the sequence of the texts pdfplumber extracts  *)
(* from its pages, the empty text for a page without extractable text.     *)
(***************************************************************************)
LineChapter1 ==
    <<"C", "H", "A", "P", "T", "E", "R", " ", "1">>

LineChapter2 ==
    <<"C", "h", "a", "p", "t", "e", "r", " ", "2">>

LinePartII ==
    <<"P", "a", "r", "t", " ", "I", "I">>

LineHello ==
    <<"H", "e", "l", "l", "o", " ", "w", "o", "r", "l", "d", ".">>

LineNiceDay ==
    <<"I", "t", " ", "i", "s", " ", "a", " ", "n", "i", "c", "e", " ", "d",
    "a", "y", ".">>

LineShort ==
    <<"a", "b">>

LineBlank ==
    <<>>

LinePageNumber ==
    <<"7">>

LineFootnote ==
    <<"1", " ", "n", "o", "t", "e">>

LineReference ==
    <<"[", "1", "]", " ", "r", "e", "f">>

LineSpaces ==
    <<" ", "\t">>

NewLine == <<"\n">>

\* The page texts the files are made of: the lines joined by newlines.
PageTexts ==
    { << >>,
      Join(<<LineChapter1, LineBlank, LineHello, LineNiceDay>>, NewLine),
      Join(<<LineShort, LineChapter2, LineHello>>, NewLine),
      Join(<<LineHello, LineBlank, LineNiceDay>>, NewLine),
      Join(<<LineChapter1, LineShort, LinePartII, LineNiceDay>>, NewLine),
      Join(<<LineShort, LineChapter1>>, NewLine),
      Join(<<LinePageNumber, LineShort, LineFootnote, LineReference,
             LineHello, LinePageNumber>>, NewLine),
      LineSpaces }

\* The largest number of pages of a file.
MaxPdfPages == 3

RECURSIVE SeqsUpTo(_, _)
SeqsUpTo(S, n) ==
    IF n = 0 THEN { << >> }
    ELSE LET shorter == SeqsUpTo(S, n - 1)
         IN  shorter \cup { Append(q, x) : q \in shorter, x \in S }

PdfFiles == SeqsUpTo(PageTexts, MaxPdfPages) \ { << >> }

(***************************************************************************)
(* PDFProcessor                                                            *)
(***************************************************************************)
VARIABLES
    pdf,                 \* the file at self.pdf_path
    pages,               \* self.pages
    chapters,            \* self.chapters
    structured_content,  \* self.structured_content, None or Some(dict)
    scan,                \* what the content loops of the last organize did
    line,                \* a line handed to the analyzer
    position,            \* its 0-based position in its page
    total_lines,         \* the number of lines of its page
    line_type,           \* None, or Some(result of classify_line_type)
    chapter_info,        \* None, or Some(result of _extract_chapter_info)
    roman_n,             \* the integer a numeral was written for
    roman_s,             \* the argument s of _roman_to_int
    roman_result,        \* None, or Some(result of _roman_to_int)
    words,               \* the argument word_count of _estimate_duration
    duration,            \* None, or Some(result of _estimate_duration)
    detected,            \* None, or Some(result of detect_chapters_advanced)
    organized,           \* the calls of organize_text_for_audiobook so far
    footnotes_references,  \* None, or Some(extract_footnotes_and_references)
    document_structure,  \* None, or Some(identify_document_structure)
    pdf_processor,       \* whether the application's self.pdf_processor is set
    is_reading,          \* the application's self.is_reading
    engine_is_reading,   \* the speech engine's self.is_reading
    threads              \* where each thread started by start_reading is:
                         \* "started", "runAndWait", "returned", "finally"
                         \* or "finished"

docVars == <<pdf, pages, chapters, structured_content, scan>>

lineVars == <<line, position, total_lines, line_type, chapter_info>>

romanVars == <<roman_n, roman_s, roman_result>>

durationVars == <<words, duration>>

analyzerVars ==
    <<detected, organized, footnotes_references, document_structure>>

callVars == <<romanVars, durationVars, analyzerVars>>

appVars == <<pdf_processor, is_reading, engine_is_reading, threads>>

vars == <<docVars, lineVars, callVars, appVars>>

\* The analyzer is handed no single line while the processor runs.
NoLine ==
    /\ line = << >>
    /\ position = 0
    /\ total_lines = 1
    /\ line_type = None
    /\ chapter_info = None

\* No function of the analyzer is called on its own.
NoRomanCall ==
    /\ roman_n = 0
    /\ roman_s = << >>
    /\ roman_result = None

NoDurationCall ==
    /\ words = 0
    /\ duration = None

NoAnalyzerCall ==
    /\ detected = None
    /\ organized = << >>
    /\ footnotes_references = None
    /\ document_structure = None

NoCall == NoRomanCall /\ NoDurationCall /\ NoAnalyzerCall

\* AudiobookApp.__init__: no document, nothing is read, no thread.
NoApp ==
    /\ pdf_processor = FALSE
    /\ is_reading = FALSE
    /\ engine_is_reading = FALSE
    /\ threads = << >>

\* PDFProcessor._extract_with_pdfplumber: "for i, page in enumerate(pdf.pages)"
\* from the page with 0-based index i on; a page without text is left out.
RECURSIVE PlumberLoop(_, _, _)
PlumberLoop(pages_data, file, i) ==
    IF i >= Len(file) THEN pages_data
    ELSE LET text == file[i + 1]
         IN  PlumberLoop(
                 IF text # << >>
                 THEN Append(pages_data, [page_number |-> i + 1, text |-> text])
                 ELSE pages_data,
                 file, i + 1)

_extract_with_pdfplumber(file) == PlumberLoop(<< >>, file, 0)

\* PDFProcessor.__init__
Init ==
    /\ pdf \in PdfFiles
    /\ pages = << >>
    /\ chapters = << >>
    /\ structured_content = None
    /\ scan = << >>
    /\ NoLine
    /\ NoCall
    /\ NoApp

\* PDFProcessor.extract_text (no deepdoctection processor)
extract_text ==
    /\ pages' = _extract_with_pdfplumber(pdf)
    /\ UNCHANGED appVars
    /\ UNCHANGED <<pdf, chapters, structured_content, scan, lineVars, callVars>>

\* PDFProcessor.detect_chapters (use_ai)
detect_chapters ==
    /\ UNCHANGED appVars
    /\ UNCHANGED <<pdf, pages, structured_content, scan, lineVars, callVars>>
    /\ chapters' = detect_chapters_advanced(pages)

\* PDFProcessor.get_structured_content_for_audiobook (use_ai)
get_structured_content_for_audiobook ==
    /\ IF structured_content = None
       THEN /\ structured_content' =
                   Some(organize_text_for_audiobook(pages, chapters))
            /\ scan' = OrganizeScan(pages, chapters)
       ELSE UNCHANGED <<structured_content, scan>>
    /\ UNCHANGED appVars
    /\ UNCHANGED <<pdf, pages, chapters, lineVars, callVars>>

Next ==
    \/ extract_text
    \/ detect_chapters
    \/ get_structured_content_for_audiobook

Spec == Init /\ [][Next]_vars

\* The value get_structured_content_for_audiobook returns (lines 175 to
\* 180): the stored structure when there is one, a new one otherwise.
ReturnedStructuredContent ==
    IF structured_content = None
    THEN organize_text_for_audiobook(pages, chapters)
    ELSE structured_content[1]

\* PDFProcessor.export_to_json (use_ai, no deepdoctection processor): the
\* calls of get_structured_content_for_audiobook, of get_document_structure,
\* which stores the structure in self.document_structure when none is
\* stored, and of get_footnotes_and_references, which stores nothing.
export_to_json ==
    /\ IF structured_content = None
       THEN /\ structured_content' =
                   Some(organize_text_for_audiobook(pages, chapters))
            /\ scan' = OrganizeScan(pages, chapters)
       ELSE UNCHANGED <<structured_content, scan>>
    /\ IF document_structure = None
       THEN document_structure' = Some(identify_document_structure(pages))
       ELSE UNCHANGED document_structure
    /\ UNCHANGED appVars
    /\ UNCHANGED <<pdf, pages, chapters, lineVars, romanVars, durationVars,
                   detected, organized, footnotes_references>>

\* The processor with its export.
NextExport ==
    \/ extract_text
    \/ detect_chapters
    \/ get_structured_content_for_audiobook
    \/ export_to_json

SpecExport == Init /\ [][NextExport]_vars

(***************************************************************************)
(* The analyzer on single lines: classify_line_type, and for a line        *)
(* classified 'chapter' the call of _extract_chapter_info that             *)
(* detect_chapters_advanced makes (lines 100 to 104).                      *)
(***************************************************************************)
\* The characters the short lines are made of.
LineAlphabet == {" ", "7", "A", "b", "[", "]"}

\* The largest length of a line made of LineAlphabet.
MaxShortLine == 3

\* The largest number of lines of a page.
MaxTotalLines == 7

\* The numerals written after a heading keyword.
HeadingNumerals ==
    { <<"1">>,
      <<"1", "2">>,
      <<"0", "0", "7">>,
      <<"I">>,
      <<"I", "I">>,
      <<"I", "V">>,
      <<"I", "X">>,
      <<"X", "I", "V">>,
      <<"X", "L">>,
      <<"M", "C", "M", "X", "C">>,
      <<"I", "I", "X">>,
      <<"b">> }

\* Keyword headings: a keyword, a separator, a numeral, and possibly a title.
KeywordHeadings ==
    { w \o sep \o n \o rest :
        w \in ChapterWords \cup PartWords \cup SectionWords,
        sep \in { <<" ">>, <<" ", "\t">> },
        n \in HeadingNumerals,
        rest \in { << >>, <<":", " ", "D", "i", "x">> } }

CapitalLines ==
    { <<"T", "H", "E", " ", "B", "E", "G", "I", "N", "N", "I", "N", "G">>,
      <<"A", "B", "O", "U", "T", " ", "T", "H", "E", " ", "A", "U", "T", "H", "O", "R">>,
      <<"I", "N", "T", "R", "O", "D", "U", "C", "T", "I", "O", "N">>,
      <<"T", "H", "E", " ", "N", "E", "W", " ", "W", "O", "R", "T", "H", " ", "2">>,
      <<"S", "H", "O", "R", "T", " ", "C", "A", "P", "S">> }

OtherLines ==
    { <<"7", ".", " ", "A">>,
      <<"1", "2", ".", " ", "I", "n", "t", "r", "o">>,
      <<"7", ".", "A">>,
      <<"7", ".", " ", "a">>,
      <<"C", "o", "p", "y", "r", "i", "g", "h", "t", " ", "2", "0", "2", "0">>,
      <<"7", " ", "|", " ", "x">>,
      <<"\t">>,
      <<"\r">>,
      <<" ", "\f">>,
      <<"[", "1", "2", "]">>,
      <<"[", "1", "2", "]", " ", "r", "e", "f">>,
      <<"1", "2", " ", "n", "o", "t", "e">>,
      <<"n", "o", "t", "e", " ", "1", "2">>,
      <<"H", "e", "l", "l", "o", " ", "w", "o", "r", "l", "d", ".">> }

\* k copies of the sequence q, one after the other.
Repeat(q, k) == [i \in 1..(k * Len(q)) |-> q[((i - 1) % Len(q)) + 1]]

\* Lines one character shorter than the length limit of the header and
\* footer rules, and lines as long as the limit: a number, a copyright notice
\* and a pipe marker.
LongLines ==
    UNION { { Repeat(<<"7">>, len),
              <<"C", "o", "p", "y", "r", "i", "g", "h", "t">>
                  \o Repeat(<<"x">>, len - 9),
              <<"7", " ", "|", " ">> \o Repeat(<<"x">>, len - 4) } :
            len \in { HeaderFooterMaxLen - 1, HeaderFooterMaxLen } }

\* Numbered lines one character shorter than the length limit of the footnote
\* rule, and as long as the limit.
LongNumberedLines ==
    { <<"1", "2", " ">> \o Repeat(<<"x">>, len - 3) :
        len \in { FootnoteMaxLen - 1, FootnoteMaxLen } }

\* A line as it stands, and with whitespace around it.
Padded(l) == { l, <<" ">> \o l, l \o <<" ", "\t">> }

Lines ==
    SeqsUpTo(LineAlphabet, MaxShortLine)
    \cup UNION { Padded(l) : l \in CapitalLines \cup OtherLines }
    \cup LongLines
    \cup LongNumberedLines
    \cup KeywordHeadings

InitLine ==
    /\ pdf = << >>
    /\ pages = << >>
    /\ chapters = << >>
    /\ structured_content = None
    /\ scan = << >>
    /\ line \in Lines
    /\ total_lines \in 1..MaxTotalLines
    /\ position \in 0..(total_lines - 1)
    /\ line_type = None
    /\ chapter_info = None
    /\ NoCall
    /\ NoApp

\* line_type = self.classify_line_type(line, i, len(lines))
Classify ==
    /\ line_type = None
    /\ line_type' = Some(classify_line_type(line, position, total_lines))
    /\ UNCHANGED appVars
    /\ UNCHANGED <<docVars, line, position, total_lines, chapter_info, callVars>>

\* if line_type == 'chapter': chapter_info = self._extract_chapter_info(line)
ExtractChapterInfo ==
    /\ line_type = Some("chapter")
    /\ chapter_info = None
    /\ chapter_info' = Some(_extract_chapter_info(line))
    /\ UNCHANGED appVars
    /\ UNCHANGED <<docVars, line, position, total_lines, line_type, callVars>>

NextLine == Classify \/ ExtractChapterInfo

SpecLine == InitLine /\ [][NextLine]_vars

(***************************************************************************)
(* _roman_to_int on the standard numerals.  The numeral of an integer is   *)
(* written digit by digit: M repeated for the thousands, and for every     *)
(* lower decimal place the subtractive notation with the place's one, five *)
(* and ten letters.                                                        *)
(***************************************************************************)
\* The largest integer a numeral is written for.
MaxRoman == 3999

\* The numeral of one decimal digit d with the letters of its place.
RomanDigit(d, one, five, ten) ==
    CASE d <= 3 -> Repeat(one, d)
      [] d = 4 -> one \o five
      [] d <= 8 -> five \o Repeat(one, d - 5)
      [] OTHER -> one \o ten

\* The standard subtractive numeral of k >= 1.
int_to_roman(k) ==
    Repeat(<<"M">>, k \div 1000)
    \o RomanDigit((k \div 100) % 10, <<"C">>, <<"D">>, <<"M">>)
    \o RomanDigit((k \div 10) % 10, <<"X">>, <<"L">>, <<"C">>)
    \o RomanDigit(k % 10, <<"I">>, <<"V">>, <<"X">>)

InitRoman ==
    /\ pdf = << >>
    /\ pages = << >>
    /\ chapters = << >>
    /\ structured_content = None
    /\ scan = << >>
    /\ NoLine
    /\ roman_n \in 1..MaxRoman
    /\ roman_s = int_to_roman(roman_n)
    /\ roman_result = None
    /\ NoDurationCall
    /\ NoAnalyzerCall
    /\ NoApp

\* result = self._roman_to_int(s)
RomanToInt ==
    /\ roman_result = None
    /\ roman_result' = Some(_roman_to_int(roman_s))
    /\ UNCHANGED appVars
    /\ UNCHANGED <<docVars, lineVars, roman_n, roman_s, durationVars,
                   analyzerVars>>

NextRoman == RomanToInt

SpecRoman == InitRoman /\ [][NextRoman]_vars

(***************************************************************************)
(* _estimate_duration on word counts.                                      *)
(***************************************************************************)
\* The largest word count.
MaxWordCount == 400

InitDuration ==
    /\ pdf = << >>
    /\ pages = << >>
    /\ chapters = << >>
    /\ structured_content = None
    /\ scan = << >>
    /\ NoLine
    /\ NoRomanCall
    /\ words \in 0..MaxWordCount
    /\ duration = None
    /\ NoAnalyzerCall
    /\ NoApp

\* duration = self._estimate_duration(word_count)
EstimateDuration ==
    /\ duration = None
    /\ duration' = Some(_estimate_duration(words))
    /\ UNCHANGED appVars
    /\ UNCHANGED <<docVars, lineVars, romanVars, words, analyzerVars>>

NextDuration == EstimateDuration

SpecDuration == InitDuration /\ [][NextDuration]_vars

(***************************************************************************)
(* The analyzer called with a list of pages of its own, as the processor   *)
(* calls it with self.pages: detect_chapters_advanced once, and            *)
(* organize_text_for_audiobook with the empty chapter list or with the     *)
(* list detect_chapters_advanced returned.                                 *)
(***************************************************************************)
LinePreface ==
    <<"P", "r", "e", "f", "a", "c", "e">>

LineIndex ==
    <<"I", "N", "D", "E", "X">>

Scenario1Text ==
    Join(<<LineChapter1, LineBlank, LineHello, LineNiceDay>>, NewLine)

\* The texts of the pages handed to the analyzer; the empty text is the text
\* of a page without text elements.
AnalyzerTexts ==
    { << >>,
      Scenario1Text,
      Join(<<LinePageNumber, LineShort,
             <<" ", "1", "2", " ", "s", "e", "e">>, LineFootnote,
             LineReference, LineHello, LinePageNumber>>, NewLine),
      Join(<<LineHello, LineBlank, LineNiceDay>>, NewLine),
      Join(<<LinePreface, LineHello, LineIndex>>, NewLine),
      Join(<<LineChapter1, LineShort, LinePartII, LineNiceDay>>, NewLine),
      LineSpaces }

\* The largest number of pages handed to the analyzer.
MaxAnalyzerPages == 2

\* The page lists: the pages are numbered from 1 in the order of the list.
PageLists ==
    { [k \in 1..Len(texts) |-> [page_number |-> k, text |-> texts[k]]] :
        texts \in SeqsUpTo(AnalyzerTexts, MaxAnalyzerPages) }

\* The largest number of calls of organize_text_for_audiobook.
MaxOrganizeCalls == 2

InitAnalyzer ==
    /\ pdf = << >>
    /\ pages \in PageLists
    /\ chapters = << >>
    /\ structured_content = None
    /\ scan = << >>
    /\ NoLine
    /\ NoRomanCall
    /\ NoDurationCall
    /\ NoAnalyzerCall
    /\ NoApp

\* chapters = analyzer.detect_chapters_advanced(pages)
DetectChaptersAdvanced ==
    /\ detected = None
    /\ detected' = Some(detect_chapters_advanced(pages))
    /\ UNCHANGED appVars
    /\ UNCHANGED <<docVars, lineVars, romanVars, durationVars, organized,
                   footnotes_references, document_structure>>

\* The chapter lists organize_text_for_audiobook is called with.
ChapterLists == { << >> } \cup { detected[k] : k \in 1..Len(detected) }

\* The returned value with the number of earlier calls counted into it.
OrganizeCallStamped(chapter_list) ==
    [organize_text_for_audiobook(pages, chapter_list) EXCEPT
        !.metadata.total_chapters = @ + Len(organized)]

\* The value returned by organize_text_for_audiobook(pages, chapter_list).
OrganizeCall(chapter_list) == organize_text_for_audiobook(pages, chapter_list)

\* analyzer.organize_text_for_audiobook(pages, chapter_list); the call is
\* recorded with its arguments as they are when it returns.
OrganizeTextForAudiobook ==
    /\ Len(organized) < MaxOrganizeCalls
    /\ \E chapter_list \in ChapterLists :
           organized' = Append(organized,
                               [pages_data |-> pages,
                                chapters |-> chapter_list,
                                result |-> OrganizeCall(chapter_list),
                                scan |-> OrganizeScan(pages, chapter_list)])
    /\ UNCHANGED appVars
    /\ UNCHANGED <<docVars, lineVars, romanVars, durationVars, detected,
                   footnotes_references, document_structure>>

\* analyzer.extract_footnotes_and_references(pages)
ExtractFootnotesAndReferences ==
    /\ footnotes_references = None
    /\ footnotes_references' = Some(extract_footnotes_and_references(pages))
    /\ UNCHANGED appVars
    /\ UNCHANGED <<docVars, lineVars, romanVars, durationVars, detected,
                   organized, document_structure>>

\* analyzer.identify_document_structure(pages)
IdentifyDocumentStructure ==
    /\ document_structure = None
    /\ document_structure' = Some(identify_document_structure(pages))
    /\ UNCHANGED appVars
    /\ UNCHANGED <<docVars, lineVars, romanVars, durationVars, detected,
                   organized, footnotes_references>>

NextAnalyzer ==
    \/ DetectChaptersAdvanced
    \/ OrganizeTextForAudiobook
    \/ ExtractFootnotesAndReferences
    \/ IdentifyDocumentStructure

SpecAnalyzer == InitAnalyzer /\ [][NextAnalyzer]_vars

(***************************************************************************)
(* identify_document_structure called with documents longer than the       *)
(* windows it scans: pages of plain text, and in up to two places a page   *)
(* that names a special section.                                           *)
(***************************************************************************)
\* The texts of the pages that name a special section, one for each flag.
SectionTexts ==
    { <<"T", "a", "b", "l", "e", " ", "o", "f", " ", "C", "o", "n", "t", "e",
        "n", "t", "s">>,
      <<"I", "N", "T", "R", "O", "D", "U", CCedilla, ATilde, "O">>,
      Join(<<LineShort, LinePreface>>, NewLine),
      <<"E", "p", iAcute, "l", "o", "g", "o">>,
      <<"B", "i", "b", "l", "i", "o", "g", "r", "a", "p", "h", "y">>,
      Join(<<LineIndex, LineShort>>, NewLine) }

\* The largest number of pages of a document handed to
\* identify_document_structure.
MaxStructurePages == 11

StructurePageLists ==
    { [k \in 1..n |->
          [page_number |-> k,
           text |-> IF k = p THEN t1 ELSE IF k = q THEN t2 ELSE LineShort]] :
        <<n, p, q, t1, t2>> \in
            { x \in (0..MaxStructurePages) \X (1..MaxStructurePages)
                       \X (1..MaxStructurePages) \X SectionTexts
                       \X SectionTexts :
                  x[2] <= x[3] /\ x[3] <= x[1] } } \cup { << >> }

InitStructure ==
    /\ pdf = << >>
    /\ pages \in StructurePageLists
    /\ chapters = << >>
    /\ structured_content = None
    /\ scan = << >>
    /\ NoLine
    /\ NoCall
    /\ NoApp

SpecStructure == InitStructure /\ [][IdentifyDocumentStructure]_vars

(***************************************************************************)
(* The desktop application (AudiobookApp; the modern application has the   *)
(* same toggle_play, start_reading and _read_text, and pause_reading and   *)
(* stop_reading with the body of stop_reading here): the handlers of the   *)
(* buttons run on the user-interface thread, one at a time, and every      *)
(* thread started by start_reading runs _read_text, whose steps interleave *)
(* with the handlers and with the steps of the other threads.              *)
(***************************************************************************)
\* The files the user opens.
AppFiles ==
    { << Scenario1Text >>,
      << Join(<<LineHello, LineBlank, LineNiceDay>>, NewLine) >> }

\* The largest number of threads started by start_reading.
MaxReaderThreads == 3

InitApp ==
    /\ pdf = << >>
    /\ pages = << >>
    /\ chapters = << >>
    /\ structured_content = None
    /\ scan = << >>
    /\ NoLine
    /\ NoCall
    /\ NoApp

\* AudiobookApp.load_pdf with a file chosen and read without an error: a new
\* processor, extract_text, detect_chapters, and the buttons enabled.
load_pdf ==
    /\ \E file \in AppFiles :
           /\ pdf' = file
           /\ pages' = _extract_with_pdfplumber(file)
           /\ chapters' =
                  detect_chapters_advanced(_extract_with_pdfplumber(file))
    /\ structured_content' = None
    /\ scan' = << >>
    /\ pdf_processor' = TRUE
    /\ UNCHANGED <<lineVars, callVars, is_reading, engine_is_reading,
                   threads>>

\* AudiobookApp.start_reading: the flag is set and a thread is started.
start_reading ==
    IF ~pdf_processor
    THEN UNCHANGED <<is_reading, engine_is_reading, threads>>
    ELSE /\ is_reading' = TRUE
         /\ threads' = Append(threads, "started")
         /\ UNCHANGED engine_is_reading

\* AudiobookApp.stop_reading with TTSEngine.stop: the engine is stopped and
\* both flags are cleared; no thread is waited for.
stop_reading ==
    IF is_reading
    THEN /\ engine_is_reading' = FALSE
         /\ is_reading' = FALSE
         /\ UNCHANGED threads
    ELSE UNCHANGED <<is_reading, engine_is_reading, threads>>

\* AudiobookApp.toggle_play, the command of the play button, which load_pdf
\* enables.
toggle_play ==
    /\ pdf_processor
    /\ is_reading \/ Len(threads) < MaxReaderThreads
    /\ IF is_reading THEN stop_reading ELSE start_reading
    /\ UNCHANGED <<docVars, lineVars, callVars, pdf_processor>>

\* The command of the stop button, which load_pdf enables.
StopButton ==
    /\ pdf_processor
    /\ stop_reading
    /\ UNCHANGED <<docVars, lineVars, callVars, pdf_processor>>

\* TTSEngine.speak up to engine.runAndWait(): self.is_reading = True.
SpeakBegins(t) ==
    /\ threads[t] = "started"
    /\ engine_is_reading' = TRUE
    /\ threads' = [threads EXCEPT ![t] = "runAndWait"]
    /\ UNCHANGED <<docVars, lineVars, callVars, pdf_processor, is_reading>>

\* engine.runAndWait() returns: the text was spoken, or the engine stopped.
RunAndWaitReturns(t) ==
    /\ threads[t] = "runAndWait"
    /\ threads' = [threads EXCEPT ![t] = "returned"]
    /\ UNCHANGED <<docVars, lineVars, callVars, pdf_processor, is_reading,
                   engine_is_reading>>

\* engine.runAndWait() raises, and _read_text catches the exception.
RunAndWaitRaises(t) ==
    /\ threads[t] = "runAndWait"
    /\ threads' = [threads EXCEPT ![t] = "finally"]
    /\ UNCHANGED <<docVars, lineVars, callVars, pdf_processor, is_reading,
                   engine_is_reading>>

\* The end of TTSEngine.speak: self.is_reading = False.
SpeakEnds(t) ==
    /\ threads[t] = "returned"
    /\ engine_is_reading' = FALSE
    /\ threads' = [threads EXCEPT ![t] = "finally"]
    /\ UNCHANGED <<docVars, lineVars, callVars, pdf_processor, is_reading>>

\* The finally clause of _read_text: self.is_reading = False (the call of
\* _reading_finished it asks for sets the texts of the button and of the
\* status bar only).
ReadTextFinally(t) ==
    /\ threads[t] = "finally"
    /\ is_reading' = FALSE
    /\ threads' = [threads EXCEPT ![t] = "finished"]
    /\ UNCHANGED <<docVars, lineVars, callVars, pdf_processor,
                   engine_is_reading>>

\* One step of a thread that runs _read_text.
_read_text ==
    \E t \in 1..Len(threads) :
        \/ SpeakBegins(t)
        \/ RunAndWaitReturns(t)
        \/ RunAndWaitRaises(t)
        \/ SpeakEnds(t)
        \/ ReadTextFinally(t)

NextApp ==
    \/ load_pdf
    \/ toggle_play
    \/ StopButton
    \/ _read_text

SpecApp == InitApp /\ [][NextApp]_vars

(***************************************************************************)
(* Notions the properties below are stated in.                             *)
(***************************************************************************)
\* The page of self.pages numbered page_num.
PageNumbered(page_num) ==
    pages[CHOOSE k \in 1..Len(pages) : pages[k].page_number = page_num]

\* The class of line i (0-based) of the page numbered page_num.
LineTypeAt(page_num, i) ==
    LET lines == PageLines(PageNumbered(page_num))
    IN  classify_line_type(lines[i + 1], i, Len(lines))

\* The trimmed text of line i (0-based) of the page numbered page_num.
LineTextAt(page_num, i) == Strip(PageLines(PageNumbered(page_num))[i + 1])

\* The structured content holds the chapters of self.chapters: it was built
\* by organize_text_for_audiobook from the present pages and markers.
Organized ==
    /\ structured_content # None
    /\ chapters # << >>
    /\ Len(structured_content[1].chapters) = Len(chapters)

\* The chapters of the structured content.
OutChapters == structured_content[1].chapters

\* The set of the elements of a sequence.
Range(q) == { q[k] : k \in 1..Len(q) }

\* The page numbers of self.pages.
PageNumbers == { pages[k].page_number : k \in 1..Len(pages) }

\* The largest page number of self.pages.
LastPageNumber == CHOOSE n \in PageNumbers : \A m \in PageNumbers : m <= n

\* Every line of self.pages, as page number and 0-based index.
LineRefs ==
    UNION { { [page |-> pages[k].page_number, index |-> i] :
                i \in 0..(Len(PageLines(pages[k])) - 1) } :
            k \in 1..Len(pages) }

\* The lines of self.pages classified 'content'.
ContentLines ==
    { ref \in LineRefs : LineTypeAt(ref.page, ref.index) = "content" }

(***************************************************************************)
(* C1. Content exclusivity: every line that a chapter's content loop       *)
(* retains is a line of the pages classified 'content' at its own position *)
(* and page length, and the chapter's text is made of exactly the retained *)
(* lines, trimmed and joined by spaces; so no line classified chapter,     *)
(* header, footer, footnote, reference or empty is part of a chapter text. *)
(***************************************************************************)
C1_ContentExclusivity ==
    Organized =>
        \A c \in 1..Len(OutChapters) :
            /\ Range(scan[c].retained) \subseteq ContentLines
            /\ OutChapters[c].content =
                   Join([r \in 1..Len(scan[c].retained) |->
                            LineTextAt(scan[c].retained[r].page,
                                       scan[c].retained[r].index)],
                        <<" ">>)

\* A chapter that retained lines and whose scan passed lines of four other
\* classes.
C1_Witness ==
    /\ Organized
    /\ \E c \in 1..Len(OutChapters) :
           /\ scan[c].retained # << >>
           /\ \A t \in {"header", "footer", "footnote", "reference"} :
                  \E ref \in LineRefs :
                      /\ \E v \in Range(scan[c].visited) :
                             v.page = ref.page /\ v.start <= ref.index
                      /\ LineTypeAt(ref.page, ref.index) = t

(***************************************************************************)
(* C2. The final chapter extends to the end of the document: its           *)
(* page_range ends at the largest page number of the pages, and every      *)
(* content line from its heading to the end of the last page is retained,  *)
(* also when page numbers have gaps.                                       *)
(***************************************************************************)
C2_LastChapterReachesEnd ==
    Organized =>
        LET c == Len(chapters)
        IN  /\ OutChapters[c].page_range[2] = LastPageNumber
            /\ \A ref \in ContentLines :
                   (\/ ref.page > chapters[c].page
                    \/ /\ ref.page = chapters[c].page
                       /\ ref.index > chapters[c].line_position)
                   => ref \in Range(scan[c].retained)

(***************************************************************************)
(* C3. A chapter that is not the last ends on the page before the next     *)
(* marker's page, and its content loop visits exactly the pages numbered   *)
(* from its marker's page up to, not including, the next marker's page.    *)
(***************************************************************************)
C3_InnerChapterRange ==
    Organized =>
        \A i \in 1..(Len(chapters) - 1) :
            /\ OutChapters[i].page_range[2] = chapters[i + 1].page - 1
            /\ { v.page : v \in Range(scan[i].visited) } =
                   { p \in PageNumbers :
                       chapters[i].page <= p /\ p < chapters[i + 1].page }
            /\ Len(scan[i].visited) =
                   Cardinality({ v.page : v \in Range(scan[i].visited) })

\* A chapter that is not the last and visits two pages.
C3_Witness ==
    /\ Organized
    /\ \E i \in 1..(Len(chapters) - 1) : Len(scan[i].visited) >= 2

(***************************************************************************)
(* C4. Content before a heading on the heading's page belongs to the       *)
(* previous chapter: for consecutive markers i and i+1, every content line *)
(* of marker i+1's page above that heading (and, when both headings are on *)
(* one page, below heading i) is retained by chapter i; content above the  *)
(* first heading on its page belongs to no chapter.                        *)
(***************************************************************************)
C4_ContentBeforeHeading ==
    Organized =>
        /\ \A i \in 1..(Len(chapters) - 1) :
               \A ref \in ContentLines :
                   (/\ ref.page = chapters[i + 1].page
                    /\ ref.index < chapters[i + 1].line_position
                    /\ (chapters[i].page = ref.page
                            => ref.index > chapters[i].line_position))
                   => ref \in Range(scan[i].retained)
        /\ \A ref \in ContentLines :
               (/\ ref.page = chapters[1].page
                /\ ref.index < chapters[1].line_position)
               => \A c \in 1..Len(chapters) :
                      ref \notin Range(scan[c].retained)

(***************************************************************************)
(* C5. A chapter's content starts strictly after its own heading: on its   *)
(* start page scanning starts at the line after the heading and no line at *)
(* or above the heading is retained; on every other page it visits,        *)
(* scanning starts at line 0.                                              *)
(***************************************************************************)
C5_StartsAfterHeading ==
    Organized =>
        \A c \in 1..Len(chapters) :
            /\ \A ref \in Range(scan[c].retained) :
                   ref.page = chapters[c].page
                       => ref.index > chapters[c].line_position
            /\ \A v \in Range(scan[c].visited) :
                   v.start = IF v.page = chapters[c].page
                             THEN chapters[c].line_position + 1 ELSE 0

\* A chapter whose heading has content above it on its page, and which
\* retains lines of its start page and of a later page.
C5_Witness ==
    /\ Organized
    /\ \E c \in 1..Len(chapters) :
           /\ \E ref \in ContentLines :
                  /\ ref.page = chapters[c].page
                  /\ ref.index < chapters[c].line_position
           /\ \E ref \in Range(scan[c].retained) : ref.page = chapters[c].page
           /\ \E ref \in Range(scan[c].retained) : ref.page > chapters[c].page

(***************************************************************************)
(* C6. The markers are in reading order: self.chapters is strictly         *)
(* increasing in the order by (page, line_position), so sorting it by that *)
(* key leaves it unchanged.                                                *)
(***************************************************************************)
ReadsBefore(a, b) ==
    \/ a.page < b.page
    \/ a.page = b.page /\ a.line_position < b.line_position

\* Insertion of marker m into a list sorted by (page, line_position), after
\* the markers with an equal key.
RECURSIVE InsertByReadingOrder(_, _)
InsertByReadingOrder(sorted, m) ==
    IF sorted = << >> THEN << m >>
    ELSE IF ReadsBefore(m, Head(sorted)) THEN << m >> \o sorted
    ELSE << Head(sorted) >> \o InsertByReadingOrder(Tail(sorted), m)

RECURSIVE SortByReadingOrder(_)
SortByReadingOrder(ms) ==
    IF ms = << >> THEN << >>
    ELSE InsertByReadingOrder(
             SortByReadingOrder(SubSeq(ms, 1, Len(ms) - 1)), ms[Len(ms)])

C6_MarkersInReadingOrder ==
    /\ \A i \in 1..Len(chapters) : \A j \in 1..Len(chapters) :
           i < j => ReadsBefore(chapters[i], chapters[j])
    /\ SortByReadingOrder(chapters) = chapters

\* Markers on one page and on different pages.
C6_Witness ==
    /\ Len(chapters) >= 3
    /\ \E i \in 1..(Len(chapters) - 1) : chapters[i].page = chapters[i + 1].page
    /\ \E i \in 1..(Len(chapters) - 1) : chapters[i].page < chapters[i + 1].page

(***************************************************************************)
(* C7. A line made of whitespace only (so that its trimmed text is empty)  *)
(* is classified 'empty' at every position and for every page length.      *)
(***************************************************************************)
AllWhitespace(l) == \A k \in 1..Len(l) : l[k] \in Whitespace

C7_BlankIsEmpty ==
    (line_type # None /\ AllWhitespace(line)) => line_type = Some("empty")

\* A line of several whitespace characters, not all blanks, classified below
\* the top of a page.
C7_Witness ==
    /\ line_type = Some("empty")
    /\ Len(line) >= 2
    /\ \E k \in 1..Len(line) : line[k] # " "
    /\ position > 0

(***************************************************************************)
(* C8. The chapter patterns take priority: a line that is not blank and    *)
(* whose trimmed text matches one of the five chapter patterns is          *)
(* classified 'chapter' at every position and page length, also when it    *)
(* satisfies a header, footer, footnote or reference rule.                 *)
(***************************************************************************)
\* The line stands where, and is as short as, the header rule asks, and
\* matches a header pattern.
MeetsHeaderRule ==
    /\ position < HeaderWindow
    /\ Len(Strip(line)) < HeaderFooterMaxLen
    /\ AnyMatch(header_patterns(Strip(line)))

C8_ChapterFirst ==
    (/\ line_type # None
     /\ ~AllWhitespace(line)
     /\ AnyMatch(chapter_patterns(Strip(line))))
    => line_type = Some("chapter")

\* An all-capital line of at least 11 characters at position 0, which the
\* header rule accepts too, classified 'chapter'.
C8_Witness ==
    /\ line_type = Some("chapter")
    /\ position = 0
    /\ AllCapsPattern(Strip(line))
    /\ MeetsHeaderRule

(***************************************************************************)
(* C9. detect_chapters_advanced yields exactly one marker for every line   *)
(* of the pages classified 'chapter' and none for any other line; each     *)
(* marker carries the trimmed line as title, the page number of its page,  *)
(* the 0-based position of the line in that page, and confidence 0.9.      *)
(***************************************************************************)
\* The lines of self.pages classified 'chapter'.
ChapterLines ==
    { ref \in LineRefs : LineTypeAt(ref.page, ref.index) = "chapter" }

MarkersMatchChapterLines(markers) ==
    LET headings == ChapterLines
    IN  /\ Len(markers) = Cardinality(headings)
        /\ \A ref \in headings :
               \E j \in 1..Len(markers) :
                   /\ markers[j].page = ref.page
                   /\ markers[j].line_position = ref.index
        /\ \A j \in 1..Len(markers) :
               /\ [page |-> markers[j].page,
                   index |-> markers[j].line_position] \in headings
               /\ markers[j].title =
                      LineTextAt(markers[j].page, markers[j].line_position)
               /\ markers[j].confidence = 9   \* 0.9, in tenths

C9_OneMarkerPerChapterLine ==
    [][detect_chapters => MarkersMatchChapterLines(chapters')]_vars

\* Markers for several chapter lines, among lines of other classes.
C9_Witness ==
    /\ Len(chapters) >= 2
    /\ Cardinality(LineRefs \ ChapterLines) >= 2
    /\ \E j \in 1..Len(chapters) : chapters[j].line_position > 0

(***************************************************************************)
(* C10. The ordinal of a heading is the value of the first run of Arabic   *)
(* digits of the line if it has one; otherwise the value of the first      *)
(* maximal run of the letters I, V, X, L, C, D, M by the subtractive rule  *)
(* (a letter smaller than its right neighbour is subtracted, every other   *)
(* letter added); it is null when the line has neither.                    *)
(***************************************************************************)
\* The sum of f[k] for k in lo..hi.
RECURSIVE SumOver(_, _, _)
SumOver(f, lo, hi) == IF lo > hi THEN 0 ELSE f[hi] + SumOver(f, lo, hi - 1)

RECURSIVE TenTo(_)
TenTo(n) == IF n = 0 THEN 1 ELSE 10 * TenTo(n - 1)

\* The positions of the first maximal run of characters of class in l, as a
\* set of indices; empty when l has no such character.
FirstRunPositions(l, class) ==
    LET hits == { k \in 1..Len(l) : l[k] \in class }
    IN  { k \in hits :
            \A m \in 1..k : (\E h \in hits : h <= m) => l[m] \in class }

RunFirst(R) == CHOOSE k \in R : \A m \in R : k <= m

RunLast(R) == CHOOSE k \in R : \A m \in R : m <= k

DecimalValueOf(l, R) ==
    SumOver([k \in R |-> DigitValue(l[k]) * TenTo(RunLast(R) - k)],
            RunFirst(R), RunLast(R))

SubtractiveValueOf(l, R) ==
    SumOver([k \in R |->
                IF k + 1 \in R /\ RomanValue(l[k]) < RomanValue(l[k + 1])
                THEN 0 - RomanValue(l[k]) ELSE RomanValue(l[k])],
            RunFirst(R), RunLast(R))

OrdinalOf(l) ==
    LET digits == FirstRunPositions(l, Digit)
        letters == FirstRunPositions(l, RomanLetter)
    IN  IF digits # {} THEN Some(DecimalValueOf(l, digits))
        ELSE IF letters # {} THEN Some(SubtractiveValueOf(l, letters))
        ELSE None

C10_Ordinal ==
    chapter_info # None => chapter_info[1].number = OrdinalOf(line)

\* A heading without digits whose first run of Roman letters has a
\* subtracted letter.
C10_Witness ==
    /\ chapter_info # None
    /\ FirstRunPositions(line, Digit) = {}
    /\ LET R == FirstRunPositions(line, RomanLetter)
       IN  /\ Cardinality(R) >= 2
           /\ \E k \in R : k + 1 \in R
                  /\ RomanValue(line[k]) < RomanValue(line[k + 1])
    /\ chapter_info[1].number # None

(***************************************************************************)
(* C11. Roman numeral round trip: for every integer from 1 to 3999,        *)
(* _roman_to_int applied to the standard subtractive numeral of the        *)
(* integer returns the integer.                                            *)
(***************************************************************************)
C11_RomanRoundTrip ==
    roman_result # None => roman_result[1] = roman_n

\* A numeral with a subtractive pair in every decimal place has been
\* converted: 3999 = MMMCMXCIX.
C11_Witness ==
    /\ roman_n = 3999
    /\ roman_s = <<"M", "M", "M", "C", "M", "X", "C", "I", "X">>
    /\ roman_result = Some(3999)

(***************************************************************************)
(* C12. Scenario 1: for the single page numbered 1 with the lines          *)
(* "CHAPTER 1", "", "Hello world.", "It is a nice day.", chapter detection *)
(* returns exactly one marker, with title "CHAPTER 1", page 1, line index  *)
(* 0 and ordinal 1, and organizing with that marker yields the one         *)
(* paragraph "Hello world. It is a nice day." and word_count 7.            *)
(***************************************************************************)
Scenario1Pages == << [page_number |-> 1, text |-> Scenario1Text] >>

C12_Scenario1 ==
    pages = Scenario1Pages =>
        /\ detected # None =>
               /\ Len(detected[1]) = 1
               /\ detected[1][1].title = LineChapter1
               /\ detected[1][1].page = 1
               /\ detected[1][1].line_position = 0
               /\ detected[1][1].chapter_number = Some(1)
        /\ \A c \in 1..Len(organized) :
               organized[c].chapters # << >> =>
                   /\ Len(organized[c].result.chapters) = 1
                   /\ organized[c].result.chapters[1].paragraphs =
                          << LineHello \o <<" ">> \o LineNiceDay >>
                   /\ organized[c].result.chapters[1].word_count = 7

\* The page of the scenario has been through detection and through organize
\* with the detected marker.
C12_Witness ==
    /\ pages = Scenario1Pages
    /\ detected # None
    /\ \E c \in 1..Len(organized) : organized[c].chapters = detected[1]
    /\ detected[1] # << >>

(***************************************************************************)
(* C13. Heading on the last line of a page: when the heading of a chapter  *)
(* is the last line of its page and the next marker is the first line of   *)
(* the following page, the first chapter has the empty text, word_count 0, *)
(* no paragraphs and the three durations 0, and retains no line of the     *)
(* following page; the next chapter retains every content line of its page *)
(* that lies after its own heading and before any further heading of that  *)
(* page.                                                                   *)
(***************************************************************************)
\* Marker c is the last line of its page and marker c + 1 the first line of
\* the page that follows it in self.pages.
HeadingEndsPage(c) ==
    /\ c + 1 <= Len(chapters)
    /\ chapters[c].line_position =
           Len(PageLines(PageNumbered(chapters[c].page))) - 1
    /\ chapters[c + 1].line_position = 0
    /\ \E k \in 1..(Len(pages) - 1) :
           /\ pages[k].page_number = chapters[c].page
           /\ pages[k + 1].page_number = chapters[c + 1].page

\* The content lines of the page of marker c that lie after its heading and
\* before the next heading of that page.
OwnPageContent(c) ==
    { ref \in ContentLines :
        /\ ref.page = chapters[c].page
        /\ ref.index > chapters[c].line_position
        /\ \A d \in 1..Len(chapters) :
               (chapters[d].page = ref.page
                /\ chapters[d].line_position > chapters[c].line_position)
               => ref.index < chapters[d].line_position }

C13_HeadingOnLastLine ==
    Organized =>
        \A c \in 1..Len(chapters) :
            HeadingEndsPage(c) =>
                /\ OutChapters[c].content = << >>
                /\ OutChapters[c].word_count = 0
                /\ OutChapters[c].paragraphs = << >>
                /\ OutChapters[c].estimated_duration =
                       [slow |-> 0, medium |-> 0, fast |-> 0]
                /\ \A r \in Range(scan[c].retained) :
                       r.page # chapters[c + 1].page
                /\ OwnPageContent(c + 1) \subseteq Range(scan[c + 1].retained)

(***************************************************************************)
(* C14. Duration estimate: for every word count w, each of slow, medium    *)
(* and fast is w / 130, w / 150 and w / 180 rounded to one decimal place,  *)
(* that is a multiple of 0.1 at distance at most 0.05 from the quotient;   *)
(* 300 words give 2.3, 2.0 and 1.7 and 0 words give zeros.  The values are *)
(* in tenths of a minute.                                                  *)
(***************************************************************************)
\* tenths is a multiple of 0.1 nearest to w / wpm: |10 w - tenths wpm| is at
\* most wpm / 2.
NearestTenth(tenths, w, wpm) ==
    /\ tenths \in Nat
    /\ 2 * (10 * w - tenths * wpm) <= wpm
    /\ 2 * (tenths * wpm - 10 * w) <= wpm

C14_DurationEstimate ==
    duration # None =>
        /\ NearestTenth(duration[1].slow, words, 130)
        /\ NearestTenth(duration[1].medium, words, 150)
        /\ NearestTenth(duration[1].fast, words, 180)
        /\ words = 300 =>
               duration[1] = [slow |-> 23, medium |-> 20, fast |-> 17]
        /\ words = 0 => duration[1] = [slow |-> 0, medium |-> 0, fast |-> 0]

\* The estimate of 300 words has been computed.
C14_Witness ==
    /\ words = 300
    /\ duration = Some([slow |-> 23, medium |-> 20, fast |-> 17])

(***************************************************************************)
(* C15. Duration monotonicity: for all word counts a < b, each of slow,    *)
(* medium and fast of the estimate of a is at most the corresponding value *)
(* of the estimate of b.                                                   *)
(***************************************************************************)
C15_DurationMonotone ==
    duration # None =>
        \A a \in 0..(words - 1) :
            /\ _estimate_duration(a).slow <= duration[1].slow
            /\ _estimate_duration(a).medium <= duration[1].medium
            /\ _estimate_duration(a).fast <= duration[1].fast

\* 369 words lie half way between 2.0 and 2.1 minutes at the fast rate and
\* the estimate has been computed: it is 2.0, the estimate of 368 words.
C15_Witness ==
    /\ words = 369
    /\ duration # None
    /\ duration[1].fast = 20
    /\ _estimate_duration(368).fast = 20
    /\ _estimate_duration(189).fast = 11

(***************************************************************************)
(* C16. Empty chapter list: organize_text_for_audiobook called with the    *)
(* empty chapter list returns a structured document with an empty chapters *)
(* list (no chapter for the whole document), total_chapters 0, total_pages *)
(* the number of pages, and the reading time the duration estimate of the  *)
(* words of all the pages.                                                 *)
(***************************************************************************)
\* The words of all the pages handed to the analyzer.
WordsOfPages == SumOver([k \in 1..Len(pages) |-> WordCount(pages[k].text)],
                        1, Len(pages))

C16_EmptyChapterList ==
    \A c \in 1..Len(organized) :
        organized[c].chapters = << >> =>
            /\ organized[c].result.chapters = << >>
            /\ organized[c].result.metadata.total_chapters = 0
            /\ organized[c].result.metadata.total_pages = Len(pages)
            /\ organized[c].result.metadata.estimated_reading_time =
                   _estimate_duration(WordsOfPages)

\* Two pages with words and chapter headings, organized with the empty list.
C16_Witness ==
    /\ Len(pages) = 2
    /\ detected # None
    /\ detected[1] # << >>
    /\ \E c \in 1..Len(organized) :
           /\ organized[c].chapters = << >>
           /\ organized[c].result.metadata.estimated_reading_time.slow > 0

(***************************************************************************)
(* C17. Empty input is not a failure: with the empty page list             *)
(* detect_chapters_advanced returns the empty list,                        *)
(* extract_footnotes_and_references returns empty footnote and reference   *)
(* lists, identify_document_structure returns every flag false and         *)
(* organize_text_for_audiobook returns total_pages 0 and a reading time of *)
(* zeros; and a page whose text is empty gives no marker, no footnote, no  *)
(* reference and no retained line.                                         *)
(***************************************************************************)
\* The pages of the list whose text is empty, by page number.
EmptyTextPages ==
    { pages[k].page_number : k \in { j \in 1..Len(pages) : pages[j].text = << >> } }

C17_EmptyInput ==
    /\ pages = << >> =>
           /\ detected \in { None, Some(<< >>) }
           /\ footnotes_references \in
                  { None, Some([footnotes |-> << >>, references |-> << >>]) }
           /\ document_structure # None =>
                  /\ ~document_structure[1].has_table_of_contents
                  /\ ~document_structure[1].has_introduction
                  /\ ~document_structure[1].has_preface
                  /\ ~document_structure[1].has_epilogue
                  /\ ~document_structure[1].has_bibliography
                  /\ ~document_structure[1].has_index
           /\ \A c \in 1..Len(organized) :
                  /\ organized[c].result.metadata.total_pages = 0
                  /\ organized[c].result.metadata.estimated_reading_time =
                         [slow |-> 0, medium |-> 0, fast |-> 0]
    /\ detected # None =>
           \A m \in Range(detected[1]) : m.page \notin EmptyTextPages
    /\ footnotes_references # None =>
           /\ \A f \in Range(footnotes_references[1].footnotes) :
                  f.page \notin EmptyTextPages
           /\ \A f \in Range(footnotes_references[1].references) :
                  f.page \notin EmptyTextPages
    /\ \A c \in 1..Len(organized) :
           \A i \in 1..Len(organized[c].scan) :
               \A r \in Range(organized[c].scan[i].retained) :
                   r.page \notin EmptyTextPages

\* The four functions have returned for the empty page list.
C17_Witness ==
    /\ pages = << >>
    /\ detected # None
    /\ footnotes_references # None
    /\ document_structure # None
    /\ organized # << >>

\* A page with the empty text lies in the page range of a chapter that has
\* been organized, and the other functions have returned too.
C17_WitnessEmptyPage ==
    /\ detected # None
    /\ footnotes_references # None
    /\ document_structure # None
    /\ \E c \in 1..Len(organized) :
           \E i \in 1..Len(organized[c].scan) :
               \E v \in Range(organized[c].scan[i].visited) :
                   v.page \in EmptyTextPages

RECURSIVE ScannedRefs(_, _)
ScannedRefs(c, v) ==
    IF v > Len(scan[c].visited) THEN << >>
    ELSE LET page_num == scan[c].visited[v].page
             first == scan[c].visited[v].start
             last == Len(PageLines(PageNumbered(page_num))) - 1
         IN  [i \in 1..(IF last < first THEN 0 ELSE last - first + 1) |->
                 [page |-> page_num, index |-> first + i - 1]]
             \o ScannedRefs(c, v + 1)

\* The paragraphs of the lines refs[k..] with the buffer as it stands.
RECURSIVE ParagraphsFrom(_, _, _, _)
ParagraphsFrom(c, refs, k, buffer) ==
    IF k > Len(refs)
    THEN IF buffer # << >> THEN << Join(buffer, <<" ">>) >> ELSE << >>
    ELSE IF refs[k] \in Range(scan[c].retained)
    THEN ParagraphsFrom(c, refs, k + 1,
                        Append(buffer, LineTextAt(refs[k].page, refs[k].index)))
    ELSE IF LineTextAt(refs[k].page, refs[k].index) = << >> /\ buffer # << >>
    THEN << Join(buffer, <<" ">>) >> \o ParagraphsFrom(c, refs, k + 1, << >>)
    ELSE ParagraphsFrom(c, refs, k + 1, buffer)

\* Two retained lines of chapter c with a blank line between them in the scan.
BlankBetweenRetained(c) ==
    LET refs == ScannedRefs(c, 1)
    IN  \E a, b, z \in 1..Len(refs) :
            /\ a < z /\ z < b
            /\ refs[a] \in Range(scan[c].retained)
            /\ refs[b] \in Range(scan[c].retained)
            /\ LineTextAt(refs[z].page, refs[z].index) = << >>

C19_ParagraphAssembly ==
    Organized =>
        \A c \in 1..Len(OutChapters) :
            OutChapters[c].paragraphs =
                ParagraphsFrom(c, ScannedRefs(c, 1), 1, << >>)

(***************************************************************************)
(* C20. Header and footer rules apply only inside their windows and in     *)
(* that order: a line that is not blank and not a chapter heading is       *)
(* 'header' exactly when position < 3, its trimmed length is below 50 and  *)
(* it matches a header pattern; it is 'footer' exactly when it is not such *)
(* a header, position >= total_lines - 3, its trimmed length is below 50   *)
(* and it matches a footer pattern.  A bare page number standing inside    *)
(* both windows is 'header'; a bare page number or a line starting with    *)
(* 'Copyright', shorter than 50, in the last three lines of a long page    *)
(* and below the header window is 'footer'.                                *)
(***************************************************************************)
\* The line is not blank and matches no chapter pattern.
NonChapterLine ==
    /\ ~AllWhitespace(line)
    /\ ~AnyMatch(chapter_patterns(Strip(line)))

\* The line stands where, and is as short as, the footer rule asks, and
\* matches a footer pattern.
MeetsFooterRule ==
    /\ position >= total_lines - 3
    /\ Len(Strip(line)) < 50
    /\ AnyMatch(footer_patterns(Strip(line)))

\* The trimmed line is made of digits only.
BarePageNumber ==
    /\ ~AllWhitespace(line)
    /\ \A k \in 1..Len(Strip(line)) : Strip(line)[k] \in Digit

\* The trimmed line starts with the word Copyright.
CopyrightLine ==
    /\ Len(Strip(line)) >= 9
    /\ SubSeq(Strip(line), 1, 9) =
           <<"C", "o", "p", "y", "r", "i", "g", "h", "t">>

C20_HeaderFooterWindows ==
    line_type # None =>
        /\ line_type = Some("header") <=>
               (/\ NonChapterLine
                /\ position < 3
                /\ Len(Strip(line)) < 50
                /\ AnyMatch(header_patterns(Strip(line))))
        /\ line_type = Some("footer") <=>
               (NonChapterLine /\ ~MeetsHeaderRule /\ MeetsFooterRule)
        /\ (/\ BarePageNumber
            /\ Len(Strip(line)) < 50
            /\ position < 3
            /\ position >= total_lines - 3)
           => line_type = Some("header")
        /\ (/\ BarePageNumber \/ CopyrightLine
            /\ Len(Strip(line)) < 50
            /\ position >= 3
            /\ position >= total_lines - 3)
           => line_type = Some("footer")

\* A bare page number classified 'header' on a short page, where it stands
\* inside both windows.
C20_Witness ==
    /\ line_type = Some("header")
    /\ BarePageNumber
    /\ MeetsHeaderRule
    /\ MeetsFooterRule

\* A copyright notice of 49 characters classified 'footer' on the last line
\* of a page of 7 lines.
C20_WitnessFooter ==
    /\ line_type = Some("footer")
    /\ CopyrightLine
    /\ Len(Strip(line)) = 49
    /\ total_lines = 7
    /\ position = 6

\* A number of 50 digits on the first line of a page: too long for 'header'.
C20_WitnessTooLong ==
    /\ line_type = Some("content")
    /\ BarePageNumber
    /\ Len(Strip(line)) = 50
    /\ position = 0

(***************************************************************************)
(* C21. Fall-through rules: a line that is not blank and not classified    *)
(* chapter, header or footer is 'footnote' exactly when its trimmed text   *)
(* starts with an integer followed by whitespace and is shorter than 150   *)
(* characters; otherwise it is 'reference' exactly when it starts with a   *)
(* bracketed integer; otherwise it is 'content'.                           *)
(***************************************************************************)
\* The trimmed line starts with digits followed by a whitespace character.
StartsWithInteger ==
    \E d \in 1..(Len(Strip(line)) - 1) :
        /\ \A k \in 1..d : Strip(line)[k] \in Digit
        /\ Strip(line)[d + 1] \in Whitespace

\* The trimmed line starts with digits between square brackets.
StartsWithBracketedInteger ==
    \E d \in 1..(Len(Strip(line)) - 2) :
        /\ Strip(line)[1] = "["
        /\ \A k \in 2..(d + 1) : Strip(line)[k] \in Digit
        /\ Strip(line)[d + 2] = "]"

C21_FallThrough ==
    (/\ line_type # None
     /\ ~AllWhitespace(line)
     /\ line_type[1] \notin {"chapter", "header", "footer"})
    => LET footnote == StartsWithInteger /\ Len(Strip(line)) < 150
           reference == ~footnote /\ StartsWithBracketedInteger
       IN  /\ line_type[1] = "footnote" <=> footnote
           /\ line_type[1] = "reference" <=> reference
           /\ line_type[1] = "content" <=> (~footnote /\ ~reference)

\* A numbered line of 150 characters classified 'content'.
C21_Witness ==
    /\ line_type = Some("content")
    /\ StartsWithInteger
    /\ Len(Strip(line)) = 150

\* A bare number outside the header and footer windows classified 'content'.
C21_WitnessBareNumber ==
    /\ line_type = Some("content")
    /\ BarePageNumber
    /\ position >= 3
    /\ position < total_lines - 3

\* A numbered line of 149 characters classified 'footnote'.
C21_WitnessFootnote ==
    /\ line_type = Some("footnote")
    /\ Len(Strip(line)) = 149

(***************************************************************************)
(* C22. A chapter's text is the trimmed texts of its retained lines, in    *)
(* the order of the scan (page order, then line order), with one space     *)
(* between consecutive lines and nothing else; its word_count is the       *)
(* number of whitespace-separated tokens of that text, which is the sum of *)
(* the token counts of the retained lines.                                 *)
(***************************************************************************)
\* The sequences of characters one after the other, a blank between them.
RECURSIVE SpaceSeparated(_)
SpaceSeparated(texts) ==
    IF texts = << >> THEN << >>
    ELSE IF Len(texts) = 1 THEN texts[1]
    ELSE SpaceSeparated(SubSeq(texts, 1, Len(texts) - 1))
         \o <<" ">> \o texts[Len(texts)]

\* The number of tokens of a text: the positions where a token ends.
Tokens(text) ==
    Cardinality({ k \in 1..Len(text) :
                    /\ text[k] \notin Whitespace
                    /\ (k = Len(text) \/ text[k + 1] \in Whitespace) })

\* The trimmed texts of the lines a scan retained.
RetainedTexts(retained) ==
    [r \in 1..Len(retained) |->
        LineTextAt(retained[r].page, retained[r].index)]

\* The lines a scan retained follow each other in page order, then line order.
InScanOrder(retained) ==
    \A a, b \in 1..Len(retained) :
        a < b => \/ retained[a].page < retained[b].page
                 \/ /\ retained[a].page = retained[b].page
                    /\ retained[a].index < retained[b].index

C22_TextAndWordCount ==
    \A c \in 1..Len(organized) :
        \A i \in 1..Len(organized[c].result.chapters) :
            LET retained == organized[c].scan[i].retained
                chapter == organized[c].result.chapters[i]
            IN  /\ InScanOrder(retained)
                /\ chapter.content = SpaceSeparated(RetainedTexts(retained))
                /\ chapter.word_count = Tokens(chapter.content)
                /\ chapter.word_count =
                       SumOver([r \in 1..Len(retained) |->
                                   Tokens(RetainedTexts(retained)[r])],
                               1, Len(retained))

\* A chapter whose retained lines lie on two pages, with a blank line
\* between two of them, and a chapter without retained lines.
C22_Witness ==
    \E c \in 1..Len(organized) :
        /\ \E i \in 1..Len(organized[c].scan) :
               LET retained == organized[c].scan[i].retained
               IN  /\ \E a, b \in Range(retained) : a.page # b.page
                   /\ \E a, b \in Range(retained) :
                          /\ a.page = b.page
                          /\ \E z \in (a.index + 1)..(b.index - 1) :
                                 LineTextAt(a.page, z) = << >>
        /\ \E i \in 1..Len(organized[c].scan) :
               organized[c].scan[i].retained = << >>

(***************************************************************************)
(* C23. Document-level metadata: total_pages is the number of pages        *)
(* supplied, total_chapters the number of markers supplied, and the        *)
(* whole-document duration the duration estimate of the number of tokens   *)
(* of the raw text of all pages; it is the same whatever the chapter list  *)
(* is, and is not computed from the chapters' word counts.                 *)
(***************************************************************************)
\* The tokens of the raw text of all the pages.
TokensOfPages ==
    SumOver([k \in 1..Len(pages) |-> Tokens(pages[k].text)], 1, Len(pages))

\* The sum of the word counts of the chapters of a structured document.
WordsOfChapters(document) ==
    SumOver([i \in 1..Len(document.chapters) |->
                document.chapters[i].word_count],
            1, Len(document.chapters))

C23_DocumentMetadata ==
    \A c \in 1..Len(organized) :
        /\ organized[c].result.metadata.total_pages = Len(pages)
        /\ organized[c].result.metadata.total_chapters =
               Len(organized[c].chapters)
        /\ organized[c].result.metadata.estimated_reading_time =
               _estimate_duration(TokensOfPages)
        /\ \A d \in 1..Len(organized) :
               organized[c].result.metadata.estimated_reading_time =
                   organized[d].result.metadata.estimated_reading_time

\* Two calls, one with the empty list and one with the detected markers,
\* whose chapters' word counts add up to an estimate other than the whole
\* document's.
C23_Witness ==
    /\ Len(organized) = 2
    /\ organized[1].chapters = << >>
    /\ organized[2].chapters # << >>
    /\ _estimate_duration(WordsOfChapters(organized[2].result)) #
           organized[2].result.metadata.estimated_reading_time

(***************************************************************************)
(* C24. extract_footnotes_and_references returns, in page order and then   *)
(* line order, exactly one footnote entry for every line classified        *)
(* 'footnote' and exactly one reference entry for every line classified    *)
(* 'reference', each with the page number of its page and the trimmed      *)
(* text of the line; a footnote entry's number is the integer the line     *)
(* begins with, and is never null.                                         *)
(***************************************************************************)
\* The lines of the pages of class line_class.
LinesOfClass(line_class) ==
    { ref \in LineRefs : LineTypeAt(ref.page, ref.index) = line_class }

\* Line a is scanned before line b.
ScannedBefore(a, b) ==
    \/ a.page < b.page
    \/ a.page = b.page /\ a.index < b.index

\* The j-th line of a set of lines in the order of the scan.
NthScanned(refs, j) ==
    CHOOSE r \in refs :
        Cardinality({ q \in refs : ScannedBefore(q, r) }) = j - 1

\* The integer a trimmed text begins with.
LeadingInteger(text) ==
    ParseInt(SubSeq(text, 1, SkipClass(text, 1, Digit) - 1))

C24_FootnotesAndReferences ==
    footnotes_references # None =>
        LET found == footnotes_references[1]
            notes == LinesOfClass("footnote")
            refs == LinesOfClass("reference")
        IN  /\ Len(found.footnotes) = Cardinality(notes)
            /\ Len(found.references) = Cardinality(refs)
            /\ \A j \in 1..Len(found.footnotes) :
                   LET r == NthScanned(notes, j)
                   IN  /\ found.footnotes[j].page = r.page
                       /\ found.footnotes[j].text =
                              LineTextAt(r.page, r.index)
                       /\ found.footnotes[j].number # None
                       /\ found.footnotes[j].number =
                              Some(LeadingInteger(LineTextAt(r.page,
                                                             r.index)))
            /\ \A j \in 1..Len(found.references) :
                   LET r == NthScanned(refs, j)
                   IN  /\ found.references[j].page = r.page
                       /\ found.references[j].text =
                              LineTextAt(r.page, r.index)

\* Footnotes and references found on two pages, one of the footnotes on a
\* line that begins with blanks, next to lines of the other classes.
C24_Witness ==
    /\ footnotes_references # None
    /\ Len(footnotes_references[1].footnotes) = 4
    /\ Len(footnotes_references[1].references) = 2
    /\ footnotes_references[1].footnotes[1].number = Some(12)
    /\ footnotes_references[1].footnotes[4].page = 2
    /\ LinesOfClass("header") # {}
    /\ LinesOfClass("content") # {}

(***************************************************************************)
(* C25. Document structure flags: has_table_of_contents, has_introduction  *)
(* and has_preface are true exactly when one of their keywords occurs, in  *)
(* whatever case, in the text of one of the first 10 pages, and            *)
(* has_epilogue, has_bibliography and has_index exactly when one of their  *)
(* keywords occurs in one of the last 10 pages; a front-matter keyword     *)
(* only after the first 10 pages, or a back-matter keyword only before the *)
(* last 10 pages, sets no flag.                                            *)
(***************************************************************************)
\* Word w occurs in the text, letter by letter, in whatever case.
Mentions(text, w) ==
    \E a \in 1..(Len(text) - Len(w) + 1) :
        \A j \in 1..Len(w) : Lower(<<text[a + j - 1]>>) = <<w[j]>>

\* One of the words occurs in one of the pages at the places ks.
MentionedOn(ks, ws) ==
    \E k \in ks \cap (1..Len(pages)) : \E w \in ws : Mentions(pages[k].text, w)

TableOfContentsWords ==
    { <<"t", "a", "b", "l", "e", " ", "o", "f", " ", "c", "o", "n", "t", "e",
        "n", "t", "s">>,
      <<iAcute, "n", "d", "i", "c", "e">> }

IntroductionWords ==
    { <<"i", "n", "t", "r", "o", "d", "u", "c", "t", "i", "o", "n">>,
      <<"i", "n", "t", "r", "o", "d", "u", cCedilla, aTilde, "o">> }

PrefaceWords ==
    { <<"p", "r", "e", "f", "a", "c", "e">>,
      <<"p", "r", "e", "f", aAcute, "c", "i", "o">> }

EpilogueWords ==
    { <<"e", "p", "i", "l", "o", "g", "u", "e">>,
      <<"e", "p", iAcute, "l", "o", "g", "o">> }

BibliographyWords ==
    { <<"b", "i", "b", "l", "i", "o", "g", "r", "a", "p", "h", "y">>,
      <<"b", "i", "b", "l", "i", "o", "g", "r", "a", "f", "i", "a">> }

IndexWords ==
    { <<"i", "n", "d", "e", "x">> }

\* The places of the first 10 and of the last 10 pages.
FrontPlaces == 1..10

BackPlaces == (Len(pages) - 9)..Len(pages)

C25_StructureFlags ==
    document_structure # None =>
        LET structure == document_structure[1]
        IN  /\ structure.has_table_of_contents
                   <=> MentionedOn(FrontPlaces, TableOfContentsWords)
            /\ structure.has_introduction
                   <=> MentionedOn(FrontPlaces, IntroductionWords)
            /\ structure.has_preface
                   <=> MentionedOn(FrontPlaces, PrefaceWords)
            /\ structure.has_epilogue
                   <=> MentionedOn(BackPlaces, EpilogueWords)
            /\ structure.has_bibliography
                   <=> MentionedOn(BackPlaces, BibliographyWords)
            /\ structure.has_index
                   <=> MentionedOn(BackPlaces, IndexWords)

\* A document of more than 10 pages with an index on its first page only
\* and a preface on its last page only: no flag is set.
C25_Witness ==
    /\ document_structure # None
    /\ Len(pages) > 10
    /\ MentionedOn({1}, IndexWords)
    /\ ~MentionedOn(2..Len(pages), IndexWords)
    /\ MentionedOn({Len(pages)}, PrefaceWords)
    /\ ~MentionedOn(1..(Len(pages) - 1), PrefaceWords)
    /\ ~document_structure[1].has_index
    /\ ~document_structure[1].has_preface

\* A document of more than 10 pages with a capitalised introduction on its
\* tenth page and a bibliography on its second page: both flags are set.
C25_WitnessInside ==
    /\ document_structure # None
    /\ Len(pages) = 11
    /\ pages[10].text = <<"I", "N", "T", "R", "O", "D", "U", CCedilla, ATilde,
                           "O">>
    /\ MentionedOn({2}, BibliographyWords)
    /\ ~MentionedOn(1..9, IntroductionWords)
    /\ document_structure[1].has_introduction
    /\ document_structure[1].has_bibliography

(***************************************************************************)
(* C26. The processor's structured content reflects its current state:     *)
(* after any sequence of extract_text, detect_chapters,                    *)
(* get_structured_content_for_audiobook and export_to_json, the structure  *)
(* get_structured_content_for_audiobook returns is                         *)
(* organize_text_for_audiobook of the current pages and the current        *)
(* chapters.                                                               *)
(***************************************************************************)
C26_StructuredContentCurrent ==
    ReturnedStructuredContent = organize_text_for_audiobook(pages, chapters)

(***************************************************************************)
(* C27. For a heading made of one of the words Chapter, CHAPTER, Capitulo, *)
(* CAPITULO (with their accents), blanks and a Roman numeral, and without  *)
(* a digit, such as 'Chapter IV' or 'CHAPTER IX', the ordinal stored in    *)
(* the chapter marker is the value of that Roman numeral.                  *)
(***************************************************************************)
\* The places of the Roman numeral that follows word w and blanks at the
\* beginning of text t; empty when t does not begin so.
NumeralAfter(t, w) ==
    LET a == SkipClass(t, Len(w) + 1, Whitespace)
    IN  IF /\ Len(t) > Len(w)
           /\ SubSeq(t, 1, Len(w)) = w
           /\ a > Len(w) + 1
        THEN a..(SkipClass(t, a, RomanLetter) - 1)
        ELSE {}

C27_RomanHeadingOrdinal ==
    chapter_info # None =>
        \A w \in ChapterWords :
            LET numeral == NumeralAfter(Strip(line), w)
            IN  (numeral # {} /\ FirstRunPositions(line, Digit) = {}) =>
                    chapter_info[1].number =
                        Some(SubtractiveValueOf(Strip(line), numeral))

(***************************************************************************)
(* C28. Every chapter in the output of organize_text_for_audiobook has a   *)
(* well-formed page range, page_range[0] <= page_range[1], for the marker  *)
(* list detect_chapters_advanced produces on the same pages, also when two *)
(* headings are detected on the same page.                                 *)
(***************************************************************************)
C28_PageRangeWellFormed ==
    \A c \in 1..Len(organized) :
        organized[c].chapters = detect_chapters_advanced(pages) =>
            \A i \in 1..Len(organized[c].result.chapters) :
                organized[c].result.chapters[i].page_range[1] <=
                    organized[c].result.chapters[i].page_range[2]

(***************************************************************************)
(* C29. Chapters never share a line: with pages of distinct page numbers   *)
(* and markers in ascending order of page and line, every line, as page    *)
(* and line index, is part of the text of at most one chapter of the       *)
(* output of organize_text_for_audiobook.                                  *)
(***************************************************************************)
C29_ChaptersShareNoLine ==
    structured_content # None =>
        \A c \in 1..Len(scan) : \A d \in 1..Len(scan) :
            c # d =>
                Range(scan[c].retained) \cap Range(scan[d].retained) = {}

\* Three chapters, the first and the last with lines of their own and the
\* last two with their headings on one page.
C29_Witness ==
    /\ structured_content # None
    /\ Len(scan) = 3
    /\ Len(structured_content[1].chapters) = 3
    /\ scan[1].retained # << >>
    /\ scan[3].retained # << >>
    /\ chapters[2].page = chapters[3].page

(***************************************************************************)
(* C30. In the desktop applications is_reading tracks the reader thread    *)
(* under every interleaving of the user's actions and the background       *)
(* thread: is_reading is true whenever a thread started by start_reading   *)
(* has not finished _read_text, so that toggle_play never starts a second  *)
(* reader thread while an earlier one is running.                          *)
(***************************************************************************)
\* The threads that have not finished _read_text.
RunningReaders == { t \in 1..Len(threads) : threads[t] # "finished" }

ReaderImpliesFlag == RunningReaders # {} => is_reading

AtMostOneReader == Cardinality(RunningReaders) <= 1

C30_FlagTracksReader == ReaderImpliesFlag /\ AtMostOneReader

====
